---------------------------- MODULE Spec2Model ----------------------------
(***************************************************************************)
(* Model of the log-to-statistics extraction of render_profile_viewer:     *)
(* MyWindow.parse_log_file (src/render_profile_viewer/mainwindow.py) and   *)
(* the two conversions it uses, get_seconds_from_time and                  *)
(* get_gigabytes_from_size.                                                *)
(*                                                                         *)
(* A log is read one line per step.  A line is a sequence of one-character *)
(* strings, so that the substring tests, the splits and the number parsing *)
(* of the code are computed as the code computes them.  Floats are exact   *)
(* rationals n/d in lowest terms: the values of the catalogue are dyadic,  *)
(* so that the float arithmetic of the code is exact on them.              *)
(***************************************************************************)
EXTENDS Integers, Sequences, FiniteSets, TLC

\* ---- literals of parse_log_file (strings are sequences of characters)
\* 'Executing a '
S_Executing == <<"E", "x", "e", "c", "u", "t", "i", "n", "g", " ", "a", " ">>
\* ' render since execution mode was set to '
S_RenderSince == <<" ", "r", "e", "n", "d", "e", "r", " ", "s", "i", "n",
    "c", "e", " ", "e", "x", "e", "c", "u", "t", "i", "o", "n", " ", "m",
    "o", "d", "e", " ", "w", "a", "s", " ", "s", "e", "t", " ", "t", "o",
    " ">>
\* 'scalar'
S_scalar == <<"s", "c", "a", "l", "a", "r">>
\* 'vector'
S_vector == <<"v", "e", "c", "t", "o", "r">>
\* 'xpu'
S_xpu == <<"x", "p", "u">>
\* 'auto'
S_auto == <<"a", "u", "t", "o">>
\* 'Totals'
S_Totals == <<"T", "o", "t", "a", "l", "s">>
\* '----'
S_Dashes == <<"-", "-", "-", "-">>
\* 'Total'
S_Total == <<"T", "o", "t", "a", "l">>
\* 'Avg Time per'
S_AvgTimePer == <<"A", "v", "g", " ", "T", "i", "m", "e", " ", "p", "e",
    "r">>
\* '|'
S_Bar == <<"|">>
\* '- MCRT Time Breakdown -'
S_McrtHeader == <<"-", " ", "M", "C", "R", "T", " ", "T", "i", "m", "e", " ",
    "B", "r", "e", "a", "k", "d", "o", "w", "n", " ", "-">>
\* 'Total render prep'
S_TotalRenderPrep == <<"T", "o", "t", "a", "l", " ", "r", "e", "n", "d", "e",
    "r", " ", "p", "r", "e", "p">>
\* '- Render Prep Stats -'
S_RenderPrepHeader == <<"-", " ", "R", "e", "n", "d", "e", "r", " ", "P",
    "r", "e", "p", " ", "S", "t", "a", "t", "s", " ", "-">>
\* 'Total memory'
S_TotalMemory == <<"T", "o", "t", "a", "l", " ", "m", "e", "m", "o", "r",
    "y">>
\* '- Memory Summary -'
S_MemoryHeader == <<"-", " ", "M", "e", "m", "o", "r", "y", " ", "S", "u",
    "m", "m", "a", "r", "y", " ", "-">>
\* 'Pixel samples'
S_PixelSamples == <<"P", "i", "x", "e", "l", " ", "s", "a", "m", "p", "l",
    "e", "s">>
\* 'Pixel samples sqrt'
S_PixelSamplesSqrt == <<"P", "i", "x", "e", "l", " ", "s", "a", "m", "p",
    "l", "e", "s", " ", "s", "q", "r", "t">>
\* 'Host name'
S_HostName == <<"H", "o", "s", "t", " ", "n", "a", "m", "e">>
\* 'Wrote'
S_Wrote == <<"W", "r", "o", "t", "e">>
\* 'Image.exr'
S_ImageExr == <<"I", "m", "a", "g", "e", ".", "e", "x", "r">>
\* '-- Callstack:'
S_Callstack == <<"-", "-", " ", "C", "a", "l", "l", "s", "t", "a", "c", "k",
    ":">>
\* 'GB'
S_GB == <<"G", "B">>
\* 'MB'
S_MB == <<"M", "B">>
\* 'KB'
S_KB == <<"K", "B">>

\* ---- keys of the stats dictionary
\* 'fallback'
K_fallback == <<"f", "a", "l", "l", "b", "a", "c", "k">>
\* 'crash'
K_crash == <<"c", "r", "a", "s", "h">>
\* 'fallback_mode'
K_fallback_mode == <<"f", "a", "l", "l", "b", "a", "c", "k", "_", "m", "o",
    "d", "e">>
\* 'total_mcrt_time'
K_total_mcrt_time == <<"t", "o", "t", "a", "l", "_", "m", "c", "r", "t", "_",
    "t", "i", "m", "e">>
\* 'total_render_prep_time'
K_total_render_prep_time == <<"t", "o", "t", "a", "l", "_", "r", "e", "n",
    "d", "e", "r", "_", "p", "r", "e", "p", "_", "t", "i", "m", "e">>
\* 'total_render_prep_memory'
K_total_render_prep_memory == <<"t", "o", "t", "a", "l", "_", "r", "e", "n",
    "d", "e", "r", "_", "p", "r", "e", "p", "_", "m", "e", "m", "o", "r",
    "y">>
\* 'pixel_samples'
K_pixel_samples == <<"p", "i", "x", "e", "l", "_", "s", "a", "m", "p", "l",
    "e", "s">>
\* 'host_name'
K_host_name == <<"h", "o", "s", "t", "_", "n", "a", "m", "e">>
\* 'output_image'
K_output_image == <<"o", "u", "t", "p", "u", "t", "_", "i", "m", "a", "g",
    "e">>

\* ---- RenderProfileChartView.render_prep_stats and memory_stats
\* 'Checkout license'
K_Checkoutlicense == <<"C", "h", "e", "c", "k", "o", "u", "t", " ", "l", "i",
    "c", "e", "n", "s", "e">>
\* 'Loading scene'
K_Loadingscene == <<"L", "o", "a", "d", "i", "n", "g", " ", "s", "c", "e",
    "n", "e">>
\* 'Initialize renderer'
K_Initializerenderer == <<"I", "n", "i", "t", "i", "a", "l", "i", "z", "e",
    " ", "r", "e", "n", "d", "e", "r", "e", "r">>
\* 'Generating procedurals'
K_Generatingprocedurals == <<"G", "e", "n", "e", "r", "a", "t", "i", "n",
    "g", " ", "p", "r", "o", "c", "e", "d", "u", "r", "a", "l", "s">>
\* 'Tessellation'
K_Tessellation == <<"T", "e", "s", "s", "e", "l", "l", "a", "t", "i", "o",
    "n">>
\* 'Building BVH'
K_BuildingBVH == <<"B", "u", "i", "l", "d", "i", "n", "g", " ", "B", "V",
    "H">>
\* 'Building GPU BVH'
K_BuildingGPUBVH == <<"B", "u", "i", "l", "d", "i", "n", "g", " ", "G", "P",
    "U", " ", "B", "V", "H">>
\* 'Geometry memory'
K_Geometrymemory == <<"G", "e", "o", "m", "e", "t", "r", "y", " ", "m", "e",
    "m", "o", "r", "y">>
\* 'BVH memory'
K_BVHmemory == <<"B", "V", "H", " ", "m", "e", "m", "o", "r", "y">>
\* 'MCRT memory'
K_MCRTmemory == <<"M", "C", "R", "T", " ", "m", "e", "m", "o", "r", "y">>

\* ---- two stats of scalar_stats, and the key update_chart adds
\* 'Integration'
K_Integration == <<"I", "n", "t", "e", "g", "r", "a", "t", "i", "o", "n">>
\* 'Volume integration'
K_Volumeintegration == <<"V", "o", "l", "u", "m", "e", " ", "i", "n", "t",
    "e", "g", "r", "a", "t", "i", "o", "n">>
\* 'visible_time'
K_visible_time == <<"v", "i", "s", "i", "b", "l", "e", "_", "t", "i", "m",
    "e">>

\* ---- Python string operations used by the parser

\* the characters str.split() and float() treat as white space
Whitespace == {" ", "\n", "\t", "\r"}

\* s[i:i+len(sub)] == sub
StartsAt(sub, s, i) ==
    /\ i + Len(sub) - 1 <= Len(s)
    /\ \A k \in 1..Len(sub) : s[i + k - 1] = sub[k]

\* sub in s
Contains(sub, s) == \E i \in 1..(Len(s) - Len(sub) + 1) : StartsAt(sub, s, i)

\* s.endswith(suf)
EndsWith(s, suf) ==
    /\ Len(suf) <= Len(s)
    /\ StartsAt(suf, s, Len(s) - Len(suf) + 1)

\* s.replace(c, '') for a one-character c
Remove(s, c) == SelectSeq(s, LAMBDA x : x # c)

\* s.split(c) for a one-character c: the fields between the separators,
\* empty fields included
RECURSIVE SplitOn(_, _)
SplitOn(s, c) ==
    IF \A i \in 1..Len(s) : s[i] # c
    THEN <<s>>
    ELSE LET i == CHOOSE j \in 1..Len(s) :
                      s[j] = c /\ \A k \in 1..(j - 1) : s[k] # c
         IN  <<SubSeq(s, 1, i - 1)>> \o SplitOn(SubSeq(s, i + 1, Len(s)), c)

\* s.split(): the maximal runs of non-white-space characters
SplitWS(s) ==
    SelectSeq(SplitOn([i \in 1..Len(s) |->
                          IF s[i] \in Whitespace THEN " " ELSE s[i]], " "),
              LAMBDA f : f # <<>>)

\* s.strip(), as float() applies it to its argument
RECURSIVE Strip(_)
Strip(s) ==
    IF s = <<>> THEN s
    ELSE IF Head(s) \in Whitespace THEN Strip(Tail(s))
    ELSE IF s[Len(s)] \in Whitespace THEN Strip(SubSeq(s, 1, Len(s) - 1))
    ELSE s

\* ---- values of the stats dictionary

RECURSIVE Gcd(_, _)
Gcd(a, b) == IF b = 0 THEN a ELSE Gcd(b, a % b)

Abs(x) == IF x < 0 THEN -x ELSE x

\* every value has the same fields, so that any two values can be compared
Float(num, den) ==
    LET g == Gcd(Abs(num), den)
    IN  [t |-> "float", n |-> num \div g, d |-> den \div g, s |-> <<>>,
         b |-> FALSE]
Bool(b) == [t |-> "bool", n |-> 0, d |-> 1, s |-> <<>>, b |-> b]
Str(s) == [t |-> "str", n |-> 0, d |-> 1, s |-> s, b |-> FALSE]
None == [t |-> "None", n |-> 0, d |-> 1, s |-> <<>>, b |-> FALSE]

FAdd(x, y) == Float(x.n * y.d + y.n * x.d, x.d * y.d)
FSub(x, y) == Float(x.n * y.d - y.n * x.d, x.d * y.d)
FMulInt(x, k) == Float(x.n * k, x.d)
FDivInt(x, k) == Float(x.n, x.d * k)

\* ---- float(s) on a decimal literal: [sign] digits [. digits]

Digits == {"0", "1", "2", "3", "4", "5", "6", "7", "8", "9"}

DigitVal(c) ==
    CASE c = "0" -> 0 [] c = "1" -> 1 [] c = "2" -> 2 [] c = "3" -> 3
      [] c = "4" -> 4 [] c = "5" -> 5 [] c = "6" -> 6 [] c = "7" -> 7
      [] c = "8" -> 8 [] c = "9" -> 9

RECURSIVE NatOf(_)
NatOf(ds) ==
    IF ds = <<>> THEN 0
    ELSE 10 * NatOf(SubSeq(ds, 1, Len(ds) - 1)) + DigitVal(ds[Len(ds)])

RECURSIVE Pow10(_)
Pow10(k) == IF k = 0 THEN 1 ELSE 10 * Pow10(k - 1)

\* float(s) succeeds
IsFloat(s) ==
    LET u == Strip(s)
        m == IF u # <<>> /\ Head(u) \in {"+", "-"} THEN Tail(u) ELSE u
        f == SplitOn(m, ".")
    IN  /\ Len(f) \in {1, 2}
        /\ \A i \in 1..Len(f) : \A j \in 1..Len(f[i]) : f[i][j] \in Digits
        /\ \E i \in 1..Len(f) : f[i] # <<>>

\* the value of float(s) when it succeeds
FloatOf(s) ==
    LET u == Strip(s)
        neg == u # <<>> /\ Head(u) = "-"
        m == IF u # <<>> /\ Head(u) \in {"+", "-"} THEN Tail(u) ELSE u
        f == SplitOn(m, ".")
        frac == IF Len(f) = 2 THEN f[2] ELSE <<>>
        num == NatOf(f[1]) * Pow10(Len(frac)) + NatOf(frac)
    IN  Float(IF neg THEN -num ELSE num, Pow10(Len(frac)))

\* x / y for y # 0
FDiv(x, y) ==
    IF y.n < 0 THEN Float(-(x.n * y.d), x.d * (-y.n))
    ELSE Float(x.n * y.d, x.d * y.n)

\* ---- get_seconds_from_time

\* the exception get_seconds_from_time(time_string) raises, or "none"
SecondsExc(time_string) ==
    LET f == SplitOn(time_string, ":")
        k == Len(f)
    IN  IF k < 3 THEN "IndexError"
        ELSE IF \E i \in {k - 2, k - 1, k} : ~IsFloat(f[i]) THEN "ValueError"
        ELSE "none"

\* get_seconds_from_time reading the minutes ahead of the hours
get_seconds_minutes_first(time_string) ==
    LET f == SplitOn(time_string, ":")
        k == Len(f)
        minutes == FloatOf(f[k - 2])
        hours == FloatOf(f[k - 1])
        seconds == FloatOf(f[k])
    IN  FAdd(FAdd(seconds, FMulInt(minutes, 60)), FMulInt(hours, 3600))

get_seconds_from_time(time_string) ==
    LET f == SplitOn(time_string, ":")
        k == Len(f)
        hours == FloatOf(f[k - 2])
        minutes == FloatOf(f[k - 1])
        seconds == FloatOf(f[k])
    IN  FAdd(FAdd(seconds, FMulInt(minutes, 60)), FMulInt(hours, 3600))

\* ---- get_gigabytes_from_size

\* the exception get_gigabytes_from_size raises, or "none": float() is only
\* reached for a recognised unit
GigabytesExc(size_string, size_unit) ==
    IF size_unit \in {S_GB, S_MB, S_KB} /\ ~IsFloat(size_string)
    THEN "ValueError" ELSE "none"

\* get_gigabytes_from_size dividing kilobytes by 1024 once
get_gigabytes_kb_once(size_string, size_unit) ==
    IF size_unit = S_GB THEN FloatOf(size_string)
    ELSE IF size_unit \in {S_MB, S_KB}
         THEN FDivInt(FloatOf(size_string), 1024)
    ELSE None

get_gigabytes_from_size(size_string, size_unit) ==
    IF size_unit = S_GB THEN FloatOf(size_string)
    ELSE IF size_unit = S_MB THEN FDivInt(FloatOf(size_string), 1024)
    ELSE IF size_unit = S_KB
         THEN FDivInt(FDivInt(FloatOf(size_string), 1024), 1024)
    ELSE None

\* ---- MyWindow.parse_log_file: what the loop body computes from a line

render_prep_stats ==
    {K_Checkoutlicense, K_Loadingscene, K_Initializerenderer,
     K_Generatingprocedurals, K_Tessellation, K_BuildingBVH,
     K_BuildingGPUBVH}

memory_stats == {K_Geometrymemory, K_BVHmemory, K_MCRTmemory}

\* fallback_re.match(line): <<group(1), group(2)>>, or <<>> when the pattern
\*   Executing a (.*) render since execution mode was set to ([^.]*).
\* does not match at the start of the line.  (.*) is greedy and stops at a
\* newline; [^.]* is greedy and may take a newline; the final . is any
\* character but a newline.
FallbackMatch(line) ==
    LET a == Len(S_Executing) + 1
        \* the lengths group(2) can have when the middle text starts at p
        G2(p) == LET r == p + Len(S_RenderSince)
                 IN  {j \in 0..(Len(line) - r) :
                        /\ \A i \in r..(r + j - 1) : line[i] # "."
                        /\ line[r + j] # "\n"}
        P == {p \in a..Len(line) :
                /\ StartsAt(S_RenderSince, line, p)
                /\ \A i \in a..(p - 1) : line[i] # "\n"
                /\ G2(p) # {}}
    IN  IF ~StartsAt(S_Executing, line, 1) \/ P = {} THEN <<>>
        ELSE LET p == CHOOSE q \in P : \A o \in P : o <= q
                 r == p + Len(S_RenderSince)
                 j == CHOOSE i \in G2(p) : \A o \in G2(p) : o <= i
             IN  <<SubSeq(line, a, p - 1), SubSeq(line, r, r + j - 1)>>

\* the name of a row of the breakdown: the tokens of line.split(' ') that
\* follow a '|' token, up to the next empty token, joined by single spaces
RECURSIVE StatNameFrom(_, _, _, _)
StatNameFrom(tokens, i, get_stat_name, stat_name) ==
    IF i > Len(tokens) THEN stat_name
    ELSE LET t == tokens[i]
             name == IF get_stat_name /\ t # <<>>
                     THEN stat_name \o t \o <<" ">> ELSE stat_name
             get == IF t = S_Bar THEN TRUE
                    ELSE IF get_stat_name /\ t = <<>> THEN FALSE
                    ELSE get_stat_name
         IN  StatNameFrom(tokens, i + 1, get, name)

StatName(line) ==
    LET stat_name == StatNameFrom(SplitOn(line, " "), 1, FALSE, <<>>)
    IN  SubSeq(stat_name, 1, Len(stat_name) - 1)

\* a value read from a line: the exception reading it raises ("none" when
\* it does not), the key it is stored under and the value
Read(e, k, v) == [exc |-> e, key |-> k, v |-> v]
Failed(e) == Read(e, <<>>, None)

\* in_breakdown, a line containing 'Totals': total_mcrt_time
TotalsTime(line) ==
    LET f == SplitWS(line)
        total_mcrt_time == Remove(f[Len(f) - 1], ",")
    IN  IF Len(f) < 2 THEN Failed("IndexError")
        ELSE IF ~IsFloat(total_mcrt_time) THEN Failed("ValueError")
        ELSE Read("none", K_total_mcrt_time, FloatOf(total_mcrt_time))

\* TotalsMemory reading the size from the last two tokens, as the lines of
\* the memory block are read
TotalsMemoryLastTwo(line) ==
    LET f == SplitWS(line)
        k == Len(f)
    IN  IF k < 2 THEN Failed("IndexError")
        ELSE IF GigabytesExc(f[k - 1], f[k]) # "none"
             THEN Failed(GigabytesExc(f[k - 1], f[k]))
        ELSE Read("none", K_MCRTmemory,
                  get_gigabytes_from_size(f[k - 1], f[k]))

\* in_breakdown, a line containing 'Totals': 'MCRT memory' before the
\* subtraction
TotalsMemory(line) ==
    LET f == SplitWS(line)
    IN  IF Len(f) < 3 THEN Failed("IndexError")
        ELSE IF GigabytesExc(f[2], f[3]) # "none"
             THEN Failed(GigabytesExc(f[2], f[3]))
        ELSE Read("none", K_MCRTmemory, get_gigabytes_from_size(f[2], f[3]))

\* in_breakdown, a row of the table
RowTime(line) ==
    LET tokens == SplitOn(line, " ")
        time == Remove(tokens[Len(tokens) - 1], ",")
    IN  IF Len(tokens) < 2 THEN Failed("IndexError")
        ELSE IF ~IsFloat(time) THEN Failed("ValueError")
        ELSE Read("none", StatName(line), FloatOf(time))

\* get_seconds_from_time(line.split()[-1])
LastAsSeconds(line) ==
    LET f == SplitWS(line)
    IN  IF f = <<>> THEN Failed("IndexError")
        ELSE IF SecondsExc(f[Len(f)]) # "none"
             THEN Failed(SecondsExc(f[Len(f)]))
        ELSE Read("none", <<>>, get_seconds_from_time(f[Len(f)]))

\* get_gigabytes_from_size(line.split()[-2], line.split()[-1])
LastTwoAsGigabytes(line) ==
    LET f == SplitWS(line)
        k == Len(f)
    IN  IF k < 2 THEN Failed("IndexError")
        ELSE IF GigabytesExc(f[k - 1], f[k]) # "none"
             THEN Failed(GigabytesExc(f[k - 1], f[k]))
        ELSE Read("none", <<>>, get_gigabytes_from_size(f[k - 1], f[k]))

\* PixelSamples without the division by a million
PixelSamplesRaw(line) ==
    LET f == SplitOn(line, "=")
        pixel_samples == Remove(Remove(Remove(f[2], ","), " "), "\n")
    IN  IF Len(f) < 2 THEN Failed("IndexError")
        ELSE IF ~IsFloat(pixel_samples) THEN Failed("ValueError")
        ELSE Read("none", K_pixel_samples, FloatOf(pixel_samples))

\* a line containing 'Pixel samples' and not 'Pixel samples sqrt'
PixelSamples(line) ==
    LET f == SplitOn(line, "=")
        pixel_samples == Remove(Remove(Remove(f[2], ","), " "), "\n")
    IN  IF Len(f) < 2 THEN Failed("IndexError")
        ELSE IF ~IsFloat(pixel_samples) THEN Failed("ValueError")
        ELSE Read("none", K_pixel_samples,
                  FDivInt(FloatOf(pixel_samples), 1000000))

\* a line containing 'Host name'
HostName(line) ==
    LET f == SplitOn(line, "=")
        host_name == Remove(Remove(f[2], " "), "\n")
    IN  IF Len(f) < 2 THEN Failed("IndexError")
        ELSE Read("none", K_host_name, Str(host_name))

\* a line containing 'Wrote': output_image, stored when it ends with
\* 'Image.exr' (key <<>> when it does not)
OutputImage(line) ==
    LET f == SplitWS(line)
        output_image == f[2]
    IN  IF Len(f) < 2 THEN Failed("IndexError")
        ELSE IF EndsWith(output_image, S_ImageExr)
             THEN Read("none", K_output_image, Str(output_image))
        ELSE Read("none", <<>>, None)

\* every expression of the loop body that depends on the line alone
Scan(line) ==
    [match |-> FallbackMatch(line),
     Totals |-> Contains(S_Totals, line),
     skipped |-> \/ Contains(S_Dashes, line)
                 \/ Contains(S_Total, line)
                 \/ Contains(S_AvgTimePer, line),
     totals_time |-> TotalsTime(line),
     totals_memory |-> TotalsMemory(line),
     row |-> RowTime(line),
     breakdown_header |-> Contains(S_McrtHeader, line),
     total_render_prep |-> Contains(S_TotalRenderPrep, line),
     render_prep_hit |-> {stat \in render_prep_stats : Contains(stat, line)},
     seconds |-> LastAsSeconds(line),
     render_prep_header |-> Contains(S_RenderPrepHeader, line),
     total_memory |-> Contains(S_TotalMemory, line),
     memory_hit |-> {stat \in memory_stats : Contains(stat, line)},
     gigabytes |-> LastTwoAsGigabytes(line),
     memory_header |-> Contains(S_MemoryHeader, line),
     pixel_samples |-> /\ Contains(S_PixelSamples, line)
                       /\ ~Contains(S_PixelSamplesSqrt, line),
     pixel |-> PixelSamples(line),
     host_name |-> Contains(S_HostName, line),
     host |-> HostName(line),
     Wrote |-> Contains(S_Wrote, line),
     output_image |-> OutputImage(line),
     Callstack |-> Contains(S_Callstack, line)]

\* ---- the lines a log is made of
\* '---- MCRT Time Breakdown ----\n'
L_McrtHeader == <<"-", "-", "-", "-", " ", "M", "C", "R", "T", " ", "T", "i",
    "m", "e", " ", "B", "r", "e", "a", "k", "d", "o", "w", "n", " ", "-",
    "-", "-", "-", "\n">>
\* 'MCRT Time Breakdown:\n'
L_McrtText == <<"M", "C", "R", "T", " ", "T", "i", "m", "e", " ", "B", "r",
    "e", "a", "k", "d", "o", "w", "n", ":", "\n">>
\* '  | Integration   2.5 s\n'
L_RowA == <<" ", " ", "|", " ", "I", "n", "t", "e", "g", "r", "a", "t", "i",
    "o", "n", " ", " ", " ", "2", ".", "5", " ", "s", "\n">>
\* '  | Integration   4 s\n'
L_RowB == <<" ", " ", "|", " ", "I", "n", "t", "e", "g", "r", "a", "t", "i",
    "o", "n", " ", " ", " ", "4", " ", "s", "\n">>
\* 'Totals 2048 MB 7.5 s\n'
L_Totals == <<"T", "o", "t", "a", "l", "s", " ", "2", "0", "4", "8", " ",
    "M", "B", " ", "7", ".", "5", " ", "s", "\n">>
\* '---- Render Prep Stats ----\n'
L_RenderPrepHeader == <<"-", "-", "-", "-", " ", "R", "e", "n", "d", "e",
    "r", " ", "P", "r", "e", "p", " ", "S", "t", "a", "t", "s", " ", "-",
    "-", "-", "-", "\n">>
\* 'Loading scene 0:00:05\n'
L_LoadingScene == <<"L", "o", "a", "d", "i", "n", "g", " ", "s", "c", "e",
    "n", "e", " ", "0", ":", "0", "0", ":", "0", "5", "\n">>
\* 'Total render prep 0:01:00\n'
L_TotalRenderPrep == <<"T", "o", "t", "a", "l", " ", "r", "e", "n", "d", "e",
    "r", " ", "p", "r", "e", "p", " ", "0", ":", "0", "1", ":", "0", "0",
    "\n">>
\* '---- Memory Summary ----\n'
L_MemoryHeader == <<"-", "-", "-", "-", " ", "M", "e", "m", "o", "r", "y",
    " ", "S", "u", "m", "m", "a", "r", "y", " ", "-", "-", "-", "-", "\n">>
\* 'Geometry memory 512 MB\n'
L_GeometryMemory == <<"G", "e", "o", "m", "e", "t", "r", "y", " ", "m", "e",
    "m", "o", "r", "y", " ", "5", "1", "2", " ", "M", "B", "\n">>
\* 'MCRT memory 3 GB\n'
L_McrtMemory == <<"M", "C", "R", "T", " ", "m", "e", "m", "o", "r", "y", " ",
    "3", " ", "G", "B", "\n">>
\* 'Total memory 1024 MB\n'
L_TotalMemory == <<"T", "o", "t", "a", "l", " ", "m", "e", "m", "o", "r",
    "y", " ", "1", "0", "2", "4", " ", "M", "B", "\n">>
\* 'Pixel samples = 4,000,000\n'
L_PixelSamples == <<"P", "i", "x", "e", "l", " ", "s", "a", "m", "p", "l",
    "e", "s", " ", "=", " ", "4", ",", "0", "0", "0", ",", "0", "0", "0",
    "\n">>
\* 'Host name = tako\n'
L_HostName == <<"H", "o", "s", "t", " ", "n", "a", "m", "e", " ", "=", " ",
    "t", "a", "k", "o", "\n">>
\* 'Wrote a/b_Image.exr\n'
L_Wrote1 == <<"W", "r", "o", "t", "e", " ", "a", "/", "b", "_", "I", "m",
    "a", "g", "e", ".", "e", "x", "r", "\n">>
\* 'Wrote c/Image.exr\n'
L_Wrote2 == <<"W", "r", "o", "t", "e", " ", "c", "/", "I", "m", "a", "g",
    "e", ".", "e", "x", "r", "\n">>
\* 'Wrote a/b.png\n'
L_WroteOther == <<"W", "r", "o", "t", "e", " ", "a", "/", "b", ".", "p", "n",
    "g", "\n">>
\* '-- Callstack:\n'
L_Callstack == <<"-", "-", " ", "C", "a", "l", "l", "s", "t", "a", "c", "k",
    ":", "\n">>
\* '  | Volume integration   1.5 s\n'
L_RowVolume == <<" ", " ", "|", " ", "V", "o", "l", "u", "m", "e", " ", "i",
    "n", "t", "e", "g", "r", "a", "t", "i", "o", "n", " ", " ", " ", "1",
    ".", "5", " ", "s", "\n">>
\* '  | Integration   n/a s\n'
L_RowBad == <<" ", " ", "|", " ", "I", "n", "t", "e", "g", "r", "a", "t",
    "i", "o", "n", " ", " ", " ", "n", "/", "a", " ", "s", "\n">>
\* 'Total memory n/a MB\n'
L_TotalMemoryBad == <<"T", "o", "t", "a", "l", " ", "m", "e", "m", "o", "r",
    "y", " ", "n", "/", "a", " ", "M", "B", "\n">>
\* 'Geometry memory 2 TB\n'
L_GeometryMemoryTB == <<"G", "e", "o", "m", "e", "t", "r", "y", " ", "m",
    "e", "m", "o", "r", "y", " ", "2", " ", "T", "B", "\n">>

\* the sentence the renderer logs when it falls back to another mode
FallbackSentence(A, B) ==
    S_Executing \o A \o S_RenderSince \o B \o <<".", "\n">>

L_FallbackVectorXpu == FallbackSentence(S_vector, S_xpu)
L_FallbackScalarAuto == FallbackSentence(S_scalar, S_auto)
L_FallbackXpuScalar == FallbackSentence(S_xpu, S_scalar)

AllLines ==
    {L_McrtHeader, L_McrtText, L_RowA, L_RowB, L_Totals,
     L_RenderPrepHeader, L_LoadingScene, L_TotalRenderPrep,
     L_MemoryHeader, L_GeometryMemory, L_McrtMemory, L_TotalMemory,
     L_PixelSamples, L_HostName, L_Wrote1, L_Wrote2, L_WroteOther,
     L_Callstack, L_FallbackVectorXpu, L_FallbackScalarAuto,
     L_FallbackXpuScalar, L_RowBad, L_TotalMemoryBad, L_GeometryMemoryTB,
     L_RowVolume}

\* rows of the breakdown table named like keys the scan writes itself
\* '  | fallback_mode   1 s\n'
L_RowFallbackMode == <<" ", " ", "|", " ", "f", "a", "l", "l", "b", "a", "c",
    "k", "_", "m", "o", "d", "e", " ", " ", " ", "1", " ", "s", "\n">>
\* '  | fallback   0 s\n'
L_RowFallback == <<" ", " ", "|", " ", "f", "a", "l", "l", "b", "a", "c",
    "k", " ", " ", " ", "0", " ", "s", "\n">>

ReservedRows == {L_RowFallbackMode, L_RowFallback}

\* lines of an unusual layout: a total time with a comma, rows whose '|' is
\* not a token of its own or comes twice, the square root of the pixel samples
\* 'Totals 2048 MB 1,007.5 s\n'
L_TotalsComma == <<"T", "o", "t", "a", "l", "s", " ", "2", "0", "4", "8",
    " ", "M", "B", " ", "1", ",", "0", "0", "7", ".", "5", " ", "s", "\n">>
\* '  |Integration   2 s\n'
L_RowNoSpace == <<" ", " ", "|", "I", "n", "t", "e", "g", "r", "a", "t", "i",
    "o", "n", " ", " ", " ", "2", " ", "s", "\n">>
\* '  | A   | B   1 s\n'
L_RowTwoBars == <<" ", " ", "|", " ", "A", " ", " ", " ", "|", " ", "B", " ",
    " ", " ", "1", " ", "s", "\n">>
\* '  | A | B   3 s\n'
L_RowInnerBar == <<" ", " ", "|", " ", "A", " ", "|", " ", "B", " ", " ",
    " ", "3", " ", "s", "\n">>
\* 'Pixel samples sqrt = 2\n'
L_PixelSamplesSqrt == <<"P", "i", "x", "e", "l", " ", "s", "a", "m", "p",
    "l", "e", "s", " ", "s", "q", "r", "t", " ", "=", " ", "2", "\n">>

UnusualLines ==
    {L_TotalsComma, L_RowNoSpace, L_RowTwoBars, L_RowInnerBar,
     L_PixelSamplesSqrt}

EveryLine == AllLines \cup ReservedRows \cup UnusualLines

\* the lines of the logs of Spec
Lines == AllLines

\* ---- MyWindow.parse_log_file: the body of the loop over the lines

\* f as an explicit table, so that its values are computed once
Table(f) == f @@ <<>>

\* Scan on the lines of the catalogue; sc below is ScanOf[line], the line as
\* the loop body sees it
ScanOf == Table([l \in EveryLine |-> Scan(l)])

\* stats[k] = v
Put(dict, k, v) == (k :> v) @@ dict

\* the result of the loop body on one line: the locals after it, or the
\* exception that leaves the function
Ok(st) == [exc |-> "none", st |-> st]
Raise(kind, st) == [exc |-> kind, st |-> st]

\* FallbackPairs with the pair xpu / scalar added
FallbackPairsBothWays ==
    {<<S_scalar, S_xpu>>, <<S_vector, S_xpu>>, <<S_scalar, S_vector>>,
     <<S_vector, S_auto>>, <<S_scalar, S_auto>>, <<S_xpu, S_scalar>>}

\* the five pairs (group(1), group(2)) that count as a fallback
FallbackPairs ==
    {<<S_scalar, S_xpu>>, <<S_vector, S_xpu>>, <<S_scalar, S_vector>>,
     <<S_vector, S_auto>>, <<S_scalar, S_auto>>}

\* the fallback test made on every line before the chain of checks
FallbackCheck(dict, sc) ==
    LET match == sc.match
    IN  IF match # <<>> /\ match \in FallbackPairs
        THEN Put(Put(dict, K_fallback, Bool(TRUE)), K_fallback_mode,
                 Str(match[1]))
        ELSE dict

\* McrtMemory without the subtraction
McrtMemoryNoSubtraction(dict, gb) == gb

\* 'MCRT memory' of the Totals line: the prep-phase total is subtracted when
\* it is already in the record
McrtMemory(dict, gb) ==
    IF K_total_render_prep_memory \in DOMAIN dict
    THEN FSub(gb, dict[K_total_render_prep_memory])
    ELSE gb

\* TotalsLine without "in_breakdown = False"
TotalsLineKeepsBlock(st, sc) ==
    LET time == sc.totals_time
        mem == sc.totals_memory
        s1 == Put(st.stats, K_total_mcrt_time, time.v)
    IN  IF time.exc # "none" THEN Raise(time.exc, st)
        ELSE IF mem.exc # "none" THEN Raise(mem.exc, st)
        ELSE IF /\ K_total_render_prep_memory \in DOMAIN st.stats
                /\ "None" \in {mem.v.t, st.stats[K_total_render_prep_memory].t}
             THEN Raise("TypeError", st)
        ELSE Ok([st EXCEPT
                   !.stats = Put(s1, K_MCRTmemory, McrtMemory(s1, mem.v))])

\* in_breakdown, a line containing 'Totals'
TotalsLine(st, sc) ==
    LET time == sc.totals_time
        mem == sc.totals_memory
        s1 == Put(st.stats, K_total_mcrt_time, time.v)
    IN  IF time.exc # "none" THEN Raise(time.exc, st)
        ELSE IF mem.exc # "none" THEN Raise(mem.exc, st)
        ELSE IF /\ K_total_render_prep_memory \in DOMAIN st.stats
                /\ "None" \in {mem.v.t, st.stats[K_total_render_prep_memory].t}
             THEN Raise("TypeError", st)
        ELSE Ok([st EXCEPT
                   !.stats = Put(s1, K_MCRTmemory, McrtMemory(s1, mem.v)),
                   !.in_breakdown = FALSE])

\* StatRow adding the row to the value already stored under its name
StatRowAccumulate(st, sc) ==
    LET row == sc.row
    IN  IF row.exc # "none" THEN Raise(row.exc, st)
        ELSE IF row.key \in DOMAIN st.stats /\ st.stats[row.key].t = "float"
             THEN Ok([st EXCEPT
                        !.stats = Put(@, row.key, FAdd(@[row.key], row.v))])
        ELSE Ok([st EXCEPT !.stats = Put(@, row.key, row.v)])

\* in_breakdown, a row of the table
StatRow(st, sc) ==
    LET row == sc.row
    IN  IF row.exc # "none" THEN Raise(row.exc, st)
        ELSE Ok([st EXCEPT !.stats = Put(@, row.key, row.v)])

BreakdownLine(st, sc) ==
    IF sc.Totals THEN TotalsLine(st, sc)
    ELSE IF sc.skipped THEN Ok(st)
    ELSE StatRow(st, sc)

\* RenderPrepLine leaving the block at the first stat it stores
RenderPrepLineExitOnStat(st, sc) ==
    LET time == sc.seconds
        hit == sc.render_prep_hit
    IN  IF sc.total_render_prep
        THEN IF time.exc # "none" THEN Raise(time.exc, st)
             ELSE Ok([st EXCEPT
                        !.stats = Put(@, K_total_render_prep_time, time.v),
                        !.in_render_prep = FALSE])
        ELSE IF hit = {} THEN Ok(st)
        ELSE IF time.exc # "none" THEN Raise(time.exc, st)
        ELSE Ok([st EXCEPT !.stats = [k \in hit |-> time.v] @@ @,
                           !.in_render_prep = FALSE])

\* in_render_prep
RenderPrepLine(st, sc) ==
    LET time == sc.seconds
        hit == sc.render_prep_hit
    IN  IF sc.total_render_prep
        THEN IF time.exc # "none" THEN Raise(time.exc, st)
             ELSE Ok([st EXCEPT
                        !.stats = Put(@, K_total_render_prep_time, time.v),
                        !.in_render_prep = FALSE])
        ELSE IF hit = {} THEN Ok(st)
        ELSE IF time.exc # "none" THEN Raise(time.exc, st)
        ELSE Ok([st EXCEPT !.stats = [k \in hit |-> time.v] @@ @])

\* in_render_prep_memory
MemoryLine(st, sc) ==
    LET gb == sc.gigabytes
        hit == sc.memory_hit
    IN  IF sc.total_memory
        THEN IF gb.exc # "none" THEN Raise(gb.exc, st)
             ELSE Ok([st EXCEPT
                        !.stats = Put(@, K_total_render_prep_memory, gb.v),
                        !.in_render_prep_memory = FALSE])
        ELSE IF hit = {} THEN Ok(st)
        ELSE IF gb.exc # "none" THEN Raise(gb.exc, st)
        ELSE Ok([st EXCEPT !.stats = [k \in hit |-> gb.v] @@ @])

\* a line containing 'Pixel samples' and not 'Pixel samples sqrt'
PixelSamplesLine(st, sc) ==
    LET pixel == sc.pixel
    IN  IF pixel.exc # "none" THEN Raise(pixel.exc, st)
        ELSE Ok([st EXCEPT !.stats = Put(@, pixel.key, pixel.v)])

\* a line containing 'Host name'
HostNameLine(st, sc) ==
    LET host == sc.host
    IN  IF host.exc # "none" THEN Raise(host.exc, st)
        ELSE Ok([st EXCEPT !.stats = Put(@, host.key, host.v)])

\* a line containing 'Wrote'
WroteLine(st, sc) ==
    LET image == sc.output_image
    IN  IF st.found_wrote_line THEN Ok(st)
        ELSE IF image.exc # "none" THEN Raise(image.exc, st)
        ELSE IF image.key = K_output_image
             THEN Ok([st EXCEPT !.stats = Put(@, image.key, image.v),
                                !.found_wrote_line = TRUE])
        ELSE Ok(st)

\* a line containing '-- Callstack:'
CallstackLine(st, sc) == Ok([st EXCEPT !.stats = Put(@, K_crash, Bool(TRUE))])

\* Branch with the tests of the blocks ahead of the tests of the headers
BranchBlocksFirst(st, sc) ==
    IF st.in_breakdown THEN "in_breakdown"
    ELSE IF st.in_render_prep THEN "in_render_prep"
    ELSE IF st.in_render_prep_memory THEN "in_render_prep_memory"
    ELSE IF sc.breakdown_header THEN "breakdown_header"
    ELSE IF sc.render_prep_header THEN "render_prep_header"
    ELSE IF sc.memory_header THEN "memory_header"
    ELSE IF sc.pixel_samples THEN "pixel_samples"
    ELSE IF sc.host_name THEN "host_name"
    ELSE IF sc.Wrote THEN "Wrote"
    ELSE IF sc.Callstack THEN "Callstack"
    ELSE "none"

\* the branch of the if/elif chain that handles a line: the first whose
\* condition holds
Branch(st, sc) ==
    IF st.in_breakdown THEN "in_breakdown"
    ELSE IF sc.breakdown_header THEN "breakdown_header"
    ELSE IF st.in_render_prep THEN "in_render_prep"
    ELSE IF sc.render_prep_header THEN "render_prep_header"
    ELSE IF st.in_render_prep_memory THEN "in_render_prep_memory"
    ELSE IF sc.memory_header THEN "memory_header"
    ELSE IF sc.pixel_samples THEN "pixel_samples"
    ELSE IF sc.host_name THEN "host_name"
    ELSE IF sc.Wrote THEN "Wrote"
    ELSE IF sc.Callstack THEN "Callstack"
    ELSE "none"

\* the branch taken, on the locals st and the scanned line sc
Chain(st, sc, branch) ==
    CASE branch = "in_breakdown" -> BreakdownLine(st, sc)
      [] branch = "breakdown_header" ->
            Ok([st EXCEPT !.in_breakdown = TRUE, !.found_breakdown = TRUE])
      [] branch = "in_render_prep" -> RenderPrepLine(st, sc)
      [] branch = "render_prep_header" ->
            Ok([st EXCEPT !.in_render_prep = TRUE])
      [] branch = "in_render_prep_memory" -> MemoryLine(st, sc)
      [] branch = "memory_header" ->
            Ok([st EXCEPT !.in_render_prep_memory = TRUE])
      [] branch = "pixel_samples" -> PixelSamplesLine(st, sc)
      [] branch = "host_name" -> HostNameLine(st, sc)
      [] branch = "Wrote" -> WroteLine(st, sc)
      [] branch = "Callstack" -> CallstackLine(st, sc)
      [] OTHER -> Ok(st)

\* the if/elif chain on the locals st
IfChain(st, sc) == Chain(st, sc, Branch(st, sc))

\* the fallback test, then the if/elif chain
Iteration(st0, sc) ==
    IfChain([st0 EXCEPT !.stats = FallbackCheck(@, sc)], sc)

\* the body of the loop on one line
LoopBody(st0, line) == Iteration(st0, ScanOf[line])

\* the value returned after the last line: None, or the stats dictionary
NoStats == [k \in {} |-> None]

\* ReturnValue without the test of found_breakdown
ReturnValueAlways(found, dict) == [kind |-> "dict", stats |-> dict]

ReturnValue(found, dict) ==
    IF ~found THEN [kind |-> "None", stats |-> NoStats]
    ELSE [kind |-> "dict", stats |-> dict]
\* ---- what a log contained: the history the properties are stated on

\* "MCRT Time Breakdown", the header text without its dashes
S_McrtText == SubSeq(S_McrtHeader, 3, Len(S_McrtHeader) - 2)

\* the pairs <A> / <B> of a fallback sentence that count
DowngradePairs ==
    {<<S_scalar, S_xpu>>, <<S_vector, S_xpu>>, <<S_scalar, S_vector>>,
     <<S_vector, S_auto>>, <<S_scalar, S_auto>>}

Modes == {S_scalar, S_vector, S_xpu, S_auto}

\* what a line is, read off its text alone
Facts(l) ==
    [marker |-> Contains(S_McrtHeader, l),
     mcrt_text |-> Contains(S_McrtText, l),
     callstack |-> Contains(S_Callstack, l),
     \* the line is the fallback sentence: for a pair that counts, <A>
     downgrade |-> {p[1] : p \in {q \in DowngradePairs :
                                     l = FallbackSentence(q[1], q[2])}},
     sentence |-> \E A \in Modes, B \in Modes : l = FallbackSentence(A, B),
     \* a line containing "Wrote" whose second token ends with "Image.exr"
     image |-> IF /\ Contains(S_Wrote, l)
                  /\ Len(SplitWS(l)) >= 2
                  /\ EndsWith(SplitWS(l)[2], S_ImageExr)
               THEN {SplitWS(l)[2]} ELSE {},
     \* a line containing "Totals" with a size in its tokens 1 and 2: the
     \* gigabytes of that size
     totals_gb |-> IF /\ Contains(S_Totals, l)
                      /\ Len(SplitWS(l)) >= 3
                      /\ GigabytesExc(SplitWS(l)[2], SplitWS(l)[3]) = "none"
                   THEN {get_gigabytes_from_size(SplitWS(l)[2],
                                                 SplitWS(l)[3])}
                   ELSE {},
     \* a row of the table outside the lines the block skips, with a number
     \* as its token before the last: the name and the number
     row |-> IF /\ ~Contains(S_Totals, l) /\ ~Contains(S_Dashes, l)
                /\ ~Contains(S_Total, l) /\ ~Contains(S_AvgTimePer, l)
                /\ RowTime(l).exc = "none"
             THEN {RowTime(l)} ELSE {}]

FactsOf == Table([l \in EveryLine |-> Facts(l)])

Tag(k, v) == [k |-> k, v |-> v]

\* what reading a line with the facts f and the locals st adds to the
\* history sn
ObservedOf(st, f, sn) ==
        (IF f.marker THEN {Tag("marker", None)} ELSE {})
        \cup (IF f.mcrt_text THEN {Tag("mcrt_text", None)} ELSE {})
        \cup (IF f.callstack THEN {Tag("callstack", None)} ELSE {})
        \cup {Tag("downgrade", Str(A)) : A \in f.downgrade}
        \cup (IF f.sentence THEN {Tag("sentence", None)} ELSE {})
        \cup (IF ~\E t \in sn : t.k = "image"
              THEN {Tag("image", Str(i)) : i \in f.image} ELSE {})
        \cup (IF st.in_breakdown
              THEN {Tag("row", r.v) : r \in f.row} ELSE {})
        \cup (IF /\ st.in_breakdown
                 /\ K_total_render_prep_memory \notin DOMAIN st.stats
              THEN {Tag("totals_plain", gb) : gb \in f.totals_gb} ELSE {})

\* what reading line l with the locals st adds to the history sn
Observed(st, l, sn) == ObservedOf(st, FactsOf[l], sn)

\* ---- the scan as a state machine

\* the longest log
MaxLines == 4

VARIABLES
    in_breakdown, in_render_prep, in_render_prep_memory,  \* the block flags
    found_wrote_line, found_breakdown,
    stats,       \* the dictionary being filled
    pc,          \* "scan", "returned" or "raised"
    exc,         \* the exception that ended the scan, or "none"
    result,      \* what parse_log_file returned
    n,           \* the number of lines read
    last,        \* the line read last
    seen         \* what the lines read so far contained (history)

VARIABLES
    disk,        \* the log of each day in the test directory, or "none"
    cache,       \* the cache files: the record written for a week
    selected,    \* the weeks selected in the list
    self_stats,  \* self.stats: week -> execution mode -> entry
    todo,        \* the selected weeks process_logs has not reached yet
    bpc,         \* where the window is: "idle", "process_logs", "done",
                 \* "process_logs raised" or "update_chart raised"
    bexc,        \* the exception that left the handler, or "none"
    options,     \* the checkboxes update_chart was called with
    chart        \* the chart the handler under way has built

VARIABLES
    call,        \* a call of a conversion function: its name and arguments
    ret,         \* what the call raised and returned
    calls        \* the calls of parse_log_file made so far: how many, and the
                 \* log and outcome of the first

vars == <<in_breakdown, in_render_prep, in_render_prep_memory,
          found_wrote_line, found_breakdown, stats, pc, exc, result, n,
          last, seen>>

\* the state of the window around the extraction
bvars == <<disk, cache, selected, self_stats, todo, bpc, bexc, options, chart>>

\* a conversion function called on its own
cvars == <<call, ret, calls>>

allvars == <<vars, bvars, cvars>>

\* the locals of parse_log_file as one record
Locals ==
    [in_breakdown |-> in_breakdown, in_render_prep |-> in_render_prep,
     in_render_prep_memory |-> in_render_prep_memory,
     found_wrote_line |-> found_wrote_line,
     found_breakdown |-> found_breakdown, stats |-> stats]

\* InitStats without stats['crash'] = False
InitStatsNoCrash == Put(NoStats, K_fallback, Bool(FALSE))

\* stats = dict(); stats['fallback'] = False; stats['crash'] = False
InitStats == Put(Put(NoStats, K_fallback, Bool(FALSE)), K_crash, Bool(FALSE))

\* parse_log_file before its first line
ParseInit ==
    /\ in_breakdown = FALSE
    /\ in_render_prep = FALSE
    /\ in_render_prep_memory = FALSE
    /\ found_wrote_line = FALSE
    /\ found_breakdown = FALSE
    /\ stats = InitStats
    /\ pc = "scan"
    /\ exc = "none"
    /\ result = [kind |-> "pending", stats |-> NoStats]
    /\ n = 0
    /\ last = <<>>
    /\ seen = {}

\* no window around the extraction
WindowIdle ==
    /\ disk = <<>>
    /\ cache = <<>>
    /\ selected = {}
    /\ self_stats = <<>>
    /\ todo = {}
    /\ bpc = "idle"
    /\ bexc = "none"
    /\ options = <<>>
    /\ chart = <<>>

\* no conversion called on its own
NoCall ==
    /\ call = <<>>
    /\ ret = <<>>
    /\ calls = [count |-> 0]

Init == ParseInit /\ WindowIdle /\ NoCall

\* the locals after an iteration whose outcome is out; an exception leaves
\* the function
Assign(out) ==
    /\ exc' = out.exc
    /\ pc' = IF out.exc = "none" THEN "scan" ELSE "raised"
    /\ in_breakdown' = out.st.in_breakdown
    /\ in_render_prep' = out.st.in_render_prep
    /\ in_render_prep_memory' = out.st.in_render_prep_memory
    /\ found_wrote_line' = out.st.found_wrote_line
    /\ found_breakdown' = out.st.found_breakdown
    /\ stats' = out.st.stats

\* one iteration of "for line in f"
ReadLine(l) ==
    /\ pc = "scan"
    /\ n < MaxLines
    /\ Assign(LoopBody(Locals, l))
    /\ n' = n + 1
    /\ last' = l
    /\ seen' = seen \cup Observed(Locals, l, seen)
    /\ UNCHANGED result
    /\ UNCHANGED <<bvars, cvars>>

\* the end of the file: the return statement
Return ==
    /\ pc = "scan"
    /\ pc' = "returned"
    /\ result' = ReturnValue(found_breakdown, stats)
    /\ UNCHANGED <<in_breakdown, in_render_prep, in_render_prep_memory,
                   found_wrote_line, found_breakdown, stats, exc, n, last,
                   seen>>
    /\ UNCHANGED <<bvars, cvars>>

Next ==
    \/ \E l \in Lines : ReadLine(l)
    \/ Return

Spec == Init /\ [][Next]_vars

\* the scan on logs that may also hold rows named like the keys of the scan
\* and lines of an unusual layout
AnyRowNext ==
    \/ \E l \in EveryLine : ReadLine(l)
    \/ Return

AnyRowSpec == Init /\ [][AnyRowNext]_vars

\* ---- MyWindow.parse_log_file as a whole, on a log given as its lines

\* the locals before the first line
InitLocals ==
    [in_breakdown |-> FALSE, in_render_prep |-> FALSE,
     in_render_prep_memory |-> FALSE, found_wrote_line |-> FALSE,
     found_breakdown |-> FALSE, stats |-> InitStats]

Pending == [kind |-> "pending", stats |-> NoStats]

\* the loop from line i on, out being the outcome of the lines before it
RECURSIVE ScanFrom(_, _, _)
ScanFrom(out, log, i) ==
    IF out.exc # "none" THEN [exc |-> out.exc, value |-> Pending]
    ELSE IF i > Len(log)
         THEN [exc |-> "none",
               value |-> ReturnValue(out.st.found_breakdown, out.st.stats)]
    ELSE ScanFrom(LoopBody(out.st, log[i]), log, i + 1)

\* what parse_log_file does on a log: the exception it raises, or the value
\* it returns
parse_log_file(log) == ScanFrom(Ok(InitLocals), log, 1)

\* ---- the test directory, the cache and MyWindow.process_logs

\* the days of the calendar
NDays == 3

Days == 1..NDays

\* a log with the breakdown block, pixel samples and a host name
LogGood == <<L_McrtHeader, L_RowA, L_Totals, L_PixelSamples, L_HostName>>

\* a log without the breakdown block
LogNoData == <<L_PixelSamples, L_HostName>>

\* a log with a row whose value is not a number
LogBad == <<L_McrtHeader, L_RowBad, L_Totals, L_PixelSamples>>

\* what a day's log file can be; "none" when the directory has no log of
\* that day
LogKinds == {"good", "nodata", "bad"}

FileKinds == LogKinds \cup {"none"}

LogText(kind) ==
    CASE kind = "good" -> LogGood
      [] kind = "nodata" -> LogNoData
      [] kind = "bad" -> LogBad

ParseOf == Table([kind \in LogKinds |-> parse_log_file(LogText(kind))])

\* the execution mode whose checkbox is checked
CheckedType == "scalar"

\* get_log_path: the file of the directory named after the day, 0 for None
get_log_path(dsk, week) ==
    IF week \in DOMAIN dsk /\ dsk[week] # "none" THEN week ELSE 0

\* LogPath trying the previous day before the next day
LogPathPreviousFirst(dsk, week) ==
    IF get_log_path(dsk, week) # 0 THEN get_log_path(dsk, week)
    ELSE IF get_log_path(dsk, week - 1) # 0
         THEN get_log_path(dsk, week - 1)
    ELSE get_log_path(dsk, week + 1)

\* log_path as process_logs has it before "if log_path:": the day itself,
\* else the next day, else the previous day
LogPath(dsk, week) ==
    IF get_log_path(dsk, week) # 0 THEN get_log_path(dsk, week)
    ELSE IF get_log_path(dsk, week + 1) # 0
         THEN get_log_path(dsk, week + 1)
    ELSE get_log_path(dsk, week - 1)

\* ---- the cache files: json.dump and json.load

\* a value of a record as json.dump writes it: a float as a number with a
\* fraction, True and False as true and false, a string as a string, None
\* as null
JsonValue(v) ==
    CASE v.t = "float" -> [j |-> "number", n |-> v.n, d |-> v.d, s |-> <<>>]
      [] v.t = "bool" ->
            [j |-> IF v.b THEN "true" ELSE "false", n |-> 0, d |-> 1,
             s |-> <<>>]
      [] v.t = "str" -> [j |-> "string", n |-> 0, d |-> 1, s |-> v.s]
      [] v.t = "None" -> [j |-> "null", n |-> 0, d |-> 1, s |-> <<>>]

\* json.dump(stats, f, indent=4): the document of the cache file; the None
\* that parse_log_file returns for a log without data is written as null
json_dump(value) ==
    IF value.kind = "None" THEN [j |-> "null", members |-> <<>>]
    ELSE [j |-> "object",
          members |-> [k \in DOMAIN value.stats |->
                          JsonValue(value.stats[k])]]

\* a value of a document as json.load reads it
PyValue(jv) ==
    CASE jv.j = "number" -> Float(jv.n, jv.d)
      [] jv.j = "true" -> Bool(TRUE)
      [] jv.j = "false" -> Bool(FALSE)
      [] jv.j = "string" -> Str(jv.s)
      [] jv.j = "null" -> None

\* json.load(f)
json_load(doc) ==
    IF doc.j = "null" THEN [kind |-> "None", stats |-> NoStats]
    ELSE [kind |-> "dict",
          stats |-> [k \in DOMAIN doc.members |-> PyValue(doc.members[k])]]

\* ---- MyWindow.get_stats

\* CacheHit with the cache never used
CacheHitNever(files, week, use_cache) == FALSE

\* os.path.exists(cache_file_path) and self.use_cache
CacheHit(files, week, use_cache) == week \in DOMAIN files /\ use_cache

\* os.path.exists(log_file)
LogExists(dsk, log_file) ==
    log_file \in DOMAIN dsk /\ dsk[log_file] # "none"

\* a cache file opened for writing and left empty
EmptyFile == [j |-> "empty", members |-> <<>>]

\* WriteCache with the cache file opened before the log is parsed
WriteCacheOpenedFirst(files, week, parsed) ==
    IF parsed.exc # "none" THEN Put(files, week, EmptyFile)
    ELSE Put(files, week, json_dump(parsed.value))

\* the cache files after the lines that follow parse_log_file: they are not
\* reached when it raised
WriteCache(files, week, parsed) ==
    IF parsed.exc # "none" THEN files
    ELSE Put(files, week, json_dump(parsed.value))

\* the value get_stats returns for a log that does not exist
NoData == [kind |-> "None", stats |-> NoStats]

\* get_stats with the cache files and the log log_file: the exception it
\* raises or the value it returns, the cache files after it, and whether it
\* read the log
get_stats(files, dsk, week, log_file, use_cache) ==
    IF CacheHit(files, week, use_cache)
    THEN [exc |-> "none", value |-> json_load(files[week]), cache |-> files,
          parsed |-> FALSE]
    ELSE IF ~LogExists(dsk, log_file)
         THEN [exc |-> "none", value |-> NoData, cache |-> files,
               parsed |-> FALSE]
    ELSE [exc |-> ParseOf[dsk[log_file]].exc,
          value |-> ParseOf[dsk[log_file]].value,
          cache |-> WriteCache(files, week, ParseOf[dsk[log_file]]),
          parsed |-> TRUE]

\* self.use_cache, True when the window shows the weekly profile runs
UseCache == TRUE

\* the entry of a week without a log
Missing == [kind |-> "missing", stats |-> NoStats]

\* self.stats[week] after "if week not in self.stats"
WeekDict(ss, week) == IF week \in DOMAIN ss THEN ss[week] ELSE <<>>

\* self.stats[week][test_type] = the value get_stats returned
StoreStats(ss, week, test_type, got) ==
    IF got.exc # "none"
    THEN [exc |-> got.exc, self_stats |-> Put(ss, week, WeekDict(ss, week)),
          cache |-> got.cache]
    ELSE [exc |-> "none",
          self_stats |-> Put(ss, week, Put(WeekDict(ss, week), test_type,
                                           got.value)),
          cache |-> got.cache]

\* one iteration of the loop of process_logs
ProcessLogsBody(ss, files, dsk, week, test_type) ==
    IF LogPath(dsk, week) = 0
    THEN [exc |-> "none",
          self_stats |-> Put(ss, week, Put(WeekDict(ss, week), test_type,
                                           Missing)),
          cache |-> files]
    ELSE IF test_type \in DOMAIN WeekDict(ss, week)
         THEN [exc |-> "none", self_stats |-> ss, cache |-> files]
    ELSE StoreStats(ss, week, test_type,
                    get_stats(files, dsk, week, LogPath(dsk, week),
                              UseCache))

\* ---- MyWindow.update_chart and RenderProfileChartView.update_chart

\* the settings of the checkboxes the chart depends on
Options ==
    [divide_by_ps : BOOLEAN, show_pixel_samples : BOOLEAN,
     show_memory : BOOLEAN, show_line_series : BOOLEAN]

\* the stats of the chart whose checkbox is checked: the memory stats when
\* memory is shown, else the time stats
stats_visibility_list(show_memory) ==
    IF show_memory THEN memory_stats
    ELSE render_prep_stats \cup {K_Integration, K_Volumeintegration}

Min(S) == CHOOSE x \in S : \A y \in S : x <= y

\* the exception of the first entry, in the order of the dictionary, whose
\* outcome is an exception
FirstExc(outs) ==
    LET bad == {w \in DOMAIN outs :
                  \E t \in DOMAIN outs[w] : outs[w][t].exc # "none"}
        w0 == Min(bad)
    IN  IF bad = {} THEN "none"
        ELSE outs[w0][CHOOSE t \in DOMAIN outs[w0] :
                          outs[w0][t].exc # "none"].exc

\* "Divide by pixel samples" on one entry of my_stats
DivideEntry(e) ==
    IF e.kind = "None" THEN [exc |-> "TypeError", e |-> e]
    ELSE IF e.kind = "missing" \/ K_pixel_samples \notin DOMAIN e.stats
         THEN [exc |-> "none", e |-> e]
    ELSE IF /\ e.stats[K_pixel_samples].n = 0
            /\ \E k \in DOMAIN e.stats \ {K_pixel_samples} :
                  e.stats[k].t = "float"
         THEN [exc |-> "ZeroDivisionError", e |-> e]
    ELSE [exc |-> "none",
          e |-> [e EXCEPT !.stats =
                   [k \in DOMAIN @ |->
                      IF k # K_pixel_samples /\ @[k].t = "float"
                      THEN FDiv(@[k], FMulInt(@[K_pixel_samples], 1000000))
                      ELSE @[k]]]]

\* the sum of the values of dict under the keys ks
RECURSIVE SumOf(_, _)
SumOf(dict, ks) ==
    IF ks = {} THEN Float(0, 1)
    ELSE LET k == CHOOSE x \in ks : TRUE
         IN  FAdd(dict[k], SumOf(dict, ks \ {k}))

\* "Calculate total time for visible stats" on one entry of my_stats
VisibleTimeEntry(e, opts) ==
    IF e.kind # "dict" THEN [exc |-> "none", e |-> e]
    ELSE IF opts.show_pixel_samples
         THEN IF K_pixel_samples \notin DOMAIN e.stats
              THEN [exc |-> "KeyError", e |-> e]
              ELSE [exc |-> "none",
                    e |-> [e EXCEPT !.stats =
                             Put(@, K_visible_time, @[K_pixel_samples])]]
    ELSE IF \E k \in DOMAIN e.stats \cap
                        stats_visibility_list(opts.show_memory) :
               e.stats[k].t \in {"None", "str"}
         THEN [exc |-> "TypeError", e |-> e]
    ELSE [exc |-> "none",
          e |-> [e EXCEPT !.stats =
                   Put(@, K_visible_time,
                       SumOf(@, DOMAIN @ \cap
                                stats_visibility_list(opts.show_memory)))]]

\* the entries of my_stats after a loop over them
EntriesOf(outs) ==
    [w \in DOMAIN outs |-> [t \in DOMAIN outs[w] |-> outs[w][t].e]]

\* the keys of extra_stats_dict
ExtraStats ==
    {K_visible_time, K_total_render_prep_time, K_total_mcrt_time,
     K_pixel_samples, K_host_name}

\* extra_stats_dict as update_chart creates it for a stat
NoExtras == [x \in ExtraStats |-> <<>>]

\* RenderProfileChartView.get_stat on an entry that is not None: the lists
\* of extra_stats_dict after the call.  An element is kept with the week it
\* was appended for; the 0 appended for a missing week is written 0.0
get_stat(e, extras, week) ==
    [x \in ExtraStats |->
        IF e.kind = "missing"
        THEN Append(extras[x], [week |-> week, v |-> Float(0, 1)])
        ELSE IF x \in DOMAIN e.stats
             THEN Append(extras[x], [week |-> week, v |-> e.stats[x]])
        ELSE extras[x]]

\* process_test_type_for_week: one bar more in each of the six bar sets of
\* the stat, after get_stat has filled the lists
process_test_type_for_week(acc, e, week) ==
    [bars |-> Append(acc.bars, [week |-> week, missing |-> e.kind = "missing"]),
     extra |-> get_stat(e, acc.extra, week)]

\* the loop of update_chart over the weeks left, in the order of the
\* dictionary, for one stat of the chart: an entry that is None is passed
\* over
RECURSIVE BarsFrom(_, _, _)
BarsFrom(my_stats, weeks, acc) ==
    IF weeks = {} THEN acc
    ELSE IF \/ CheckedType \notin DOMAIN my_stats[Min(weeks)]
            \/ my_stats[Min(weeks)][CheckedType].kind = "None"
         THEN BarsFrom(my_stats, weeks \ {Min(weeks)}, acc)
    ELSE BarsFrom(my_stats, weeks \ {Min(weeks)},
                  process_test_type_for_week(
                      acc, my_stats[Min(weeks)][CheckedType], Min(weeks)))

\* RenderProfileChartView.update_chart: the categories of the bars, the
\* points of the trend lines, and for a stat of the chart its bars and the
\* lists set as properties of its bar sets (no host filter, no regression
\* warnings); an entry that is None gets none of these
chart_update_chart(my_stats, opts) ==
    [categories |->
        {<<p[1], p[2], my_stats[p[1]][p[2]].kind>> :
            p \in {q \in (DOMAIN my_stats) \X {CheckedType} :
                      /\ q[2] \in DOMAIN my_stats[q[1]]
                      /\ my_stats[q[1]][q[2]].kind # "None"}},
     line_series |->
        IF opts.show_line_series
        THEN {q \in (DOMAIN my_stats) \X {CheckedType} :
                /\ q[2] \in DOMAIN my_stats[q[1]]
                /\ my_stats[q[1]][q[2]].kind # "None"}
        ELSE {},
     bars |-> BarsFrom(my_stats, DOMAIN my_stats,
                       [bars |-> <<>>, extra |-> NoExtras]).bars,
     extra |-> BarsFrom(my_stats, DOMAIN my_stats,
                        [bars |-> <<>>, extra |-> NoExtras]).extra]

NoChart ==
    [categories |-> {}, line_series |-> {}, bars |-> <<>>,
     extra |-> NoExtras]

\* the loop "Calculate total time for visible stats", then the chart
VisibleTimes(my_stats, opts) ==
    [w \in DOMAIN my_stats |->
       [t \in DOMAIN my_stats[w] |-> VisibleTimeEntry(my_stats[w][t], opts)]]

ChartAfter(outs, opts) ==
    IF FirstExc(outs) # "none"
    THEN [exc |-> FirstExc(outs), chart |-> NoChart]
    ELSE [exc |-> "none",
          chart |-> chart_update_chart(EntriesOf(outs), opts)]

\* the loop "Divide by pixel samples"
Divided(my_stats) ==
    [w \in DOMAIN my_stats |->
       [t \in DOMAIN my_stats[w] |-> DivideEntry(my_stats[w][t])]]

VisibleAfter(outs, opts) ==
    IF FirstExc(outs) # "none"
    THEN [exc |-> FirstExc(outs), chart |-> NoChart]
    ELSE ChartAfter(VisibleTimes(EntriesOf(outs), opts), opts)

\* MyWindow.update_chart on a copy of self.stats: the exception it raises,
\* or the chart it builds
update_chart(ss, opts) ==
    IF opts.divide_by_ps THEN VisibleAfter(Divided(ss), opts)
    ELSE ChartAfter(VisibleTimes(ss, opts), opts)

\* my_stats when update_chart is left: the entries as the two loops wrote
\* them (the loop of the division alone when it raised)
MyStatsAfter(ss, opts) ==
    IF ~opts.divide_by_ps THEN EntriesOf(VisibleTimes(ss, opts))
    ELSE IF FirstExc(Divided(ss)) # "none" THEN EntriesOf(Divided(ss))
    ELSE EntriesOf(VisibleTimes(EntriesOf(Divided(ss)), opts))

\* StatsAfterChart with my_stats = self.stats in place of the deep copy: the
\* loops write to the entries of self.stats
StatsAfterChartAliased(ss, my_stats) == my_stats

\* self.stats when update_chart is left: my_stats is copy.deepcopy(self.stats)
\* and shares no entry with it, so what the loops wrote to my_stats is not
\* in self.stats
StatsAfterChart(ss, my_stats) == ss

\* ---- the window as a state machine: a selection of weeks, the loop of
\* process_logs, the chart

BatchInit ==
    /\ ParseInit
    /\ NoCall
    /\ disk \in [Days -> FileKinds]
    /\ cache = <<>>
    /\ selected = {}
    /\ self_stats = <<>>
    /\ todo = {}
    /\ bpc = "idle"
    /\ bexc = "none"
    /\ options = <<>>
    /\ chart = NoChart

\* selection_changed_weeks up to its calls of process_logs
SelectionChangedWeeks(sel) ==
    /\ bpc \in {"idle", "done"}
    /\ selected' = sel
    /\ self_stats' = <<>>
    /\ todo' = sel
    /\ bpc' = "process_logs"
    /\ options' = <<>>
    /\ chart' = NoChart
    /\ UNCHANGED <<disk, cache, bexc>>
    /\ UNCHANGED <<vars, cvars>>

\* the variables after an iteration of process_logs whose outcome is out
AssignBatch(out) ==
    /\ self_stats' = out.self_stats
    /\ cache' = out.cache
    /\ bexc' = out.exc
    /\ bpc' = IF out.exc = "none" THEN "process_logs"
            ELSE "process_logs raised"

\* one iteration of the loop of process_logs, on the first of the weeks
\* left
ProcessWeek ==
    /\ bpc = "process_logs"
    /\ todo # {}
    /\ AssignBatch(ProcessLogsBody(self_stats, cache, disk, Min(todo),
                                   CheckedType))
    /\ todo' = todo \ {Min(todo)}
    /\ UNCHANGED <<disk, selected, options, chart>>
    /\ UNCHANGED <<vars, cvars>>

\* the variables after update_chart whose outcome is out
AssignChart(out) ==
    /\ chart' = out.chart
    /\ bexc' = out.exc
    /\ bpc' = IF out.exc = "none" THEN "done" ELSE "update_chart raised"

\* the end of the loop: selection_changed_weeks calls update_chart; a
\* checkbox of the chart toggled later calls it again
UpdateChart(opts) ==
    /\ \/ bpc = "process_logs" /\ todo = {}
       \/ bpc = "done"
    /\ options' = opts
    /\ AssignChart(update_chart(self_stats, opts))
    /\ self_stats' = StatsAfterChart(self_stats, MyStatsAfter(self_stats, opts))
    /\ UNCHANGED <<disk, cache, selected, todo>>
    /\ UNCHANGED <<vars, cvars>>

BatchNext ==
    \/ \E sel \in SUBSET Days : SelectionChangedWeeks(sel)
    \/ ProcessWeek
    \/ \E opts \in Options : UpdateChart(opts)

BatchSpec == BatchInit /\ [][BatchNext]_allvars

\* ---- get_seconds_from_time and get_gigabytes_from_size called on their own

\* the most fields of a time string
MaxFields == 4

\* sep.join(fs)
RECURSIVE Join(_, _)
Join(fs, sep) ==
    IF Len(fs) = 0 THEN <<>>
    ELSE IF Len(fs) = 1 THEN fs[1]
    ELSE fs[1] \o sep \o Join(Tail(fs), sep)

\* the fields of the time strings and the numbers they denote (den = 0: the
\* field is not a number)
TimeFields ==
    {[text |-> <<"0", "1">>, num |-> 1, den |-> 1],
     [text |-> <<"0", "2">>, num |-> 2, den |-> 1],
     [text |-> <<"0", "3">>, num |-> 3, den |-> 1],
     [text |-> <<"1", ".", "5">>, num |-> 3, den |-> 2],
     [text |-> <<"x">>, num |-> 0, den |-> 0]}

\* the size strings and the numbers they denote
SizeFields ==
    {[text |-> <<"2", "0", "4", "8">>, num |-> 2048, den |-> 1],
     [text |-> <<"1">>, num |-> 1, den |-> 1],
     [text |-> <<"1", "0", "4", "8", "5", "7", "6">>, num |-> 1048576,
      den |-> 1],
     [text |-> <<"5", "1", "2">>, num |-> 512, den |-> 1],
     [text |-> <<"1", ".", "5">>, num |-> 3, den |-> 2],
     [text |-> <<"n", "/", "a">>, num |-> 0, den |-> 0]}

S_TB == <<"T", "B">>

Units == {S_GB, S_MB, S_KB, S_TB}

TimeCalls ==
    {[fn |-> "get_seconds_from_time", fields |-> fs,
      args |-> <<Join([i \in DOMAIN fs |-> fs[i].text], <<":">>)>>] :
        fs \in UNION {[1..k -> TimeFields] : k \in 1..MaxFields}}

SizeCalls ==
    {[fn |-> "get_gigabytes_from_size", fields |-> <<f>>,
      args |-> <<f.text, u>>] : f \in SizeFields, u \in Units}

\* the logs of the end-to-end scenario: a render prep block, a memory block
\* and a breakdown block with two rows, then pixel samples, the host name
\* and the image written
EndToEndLog(memory_stat, row1, row2, wrote) ==
    <<L_RenderPrepHeader, L_LoadingScene, L_TotalRenderPrep,
      L_MemoryHeader, memory_stat, L_TotalMemory,
      L_McrtHeader, row1, row2, L_Totals,
      L_PixelSamples, L_HostName, wrote>>

EndToEndLogs ==
    {EndToEndLog(m, r[1], r[2], w) :
        m \in {L_GeometryMemory, L_McrtMemory},
        r \in {<<L_RowA, L_RowVolume>>, <<L_RowVolume, L_RowB>>},
        w \in {L_Wrote1, L_Wrote2}}

ParseCalls ==
    {[fn |-> "parse_log_file", fields |-> <<>>, args |-> <<log>>] :
        log \in EndToEndLogs}

NotCalled == [exc |-> "pending", v |-> None]

ConvInit ==
    /\ ParseInit
    /\ WindowIdle
    /\ call \in TimeCalls \cup SizeCalls \cup ParseCalls
    /\ ret = NotCalled
    /\ calls = [count |-> 0]

\* the outcome of a call: the exception raised, or the value returned
Outcome(e, v) == [exc |-> e, v |-> v]

CallSeconds ==
    /\ call.fn = "get_seconds_from_time"
    /\ ret = NotCalled
    /\ ret' = IF SecondsExc(call.args[1]) # "none"
              THEN Outcome(SecondsExc(call.args[1]), None)
              ELSE Outcome("none", get_seconds_from_time(call.args[1]))
    /\ UNCHANGED <<call, calls, vars, bvars>>

CallGigabytes ==
    /\ call.fn = "get_gigabytes_from_size"
    /\ ret = NotCalled
    /\ ret' = IF GigabytesExc(call.args[1], call.args[2]) # "none"
              THEN Outcome(GigabytesExc(call.args[1], call.args[2]), None)
              ELSE Outcome("none",
                           get_gigabytes_from_size(call.args[1],
                                                   call.args[2]))
    /\ UNCHANGED <<call, calls, vars, bvars>>

\* parse_log_file on a whole log; v is the value returned
CallParseLogFile ==
    /\ call.fn = "parse_log_file"
    /\ ret = NotCalled
    /\ ret' = Outcome(parse_log_file(call.args[1]).exc,
                      parse_log_file(call.args[1]).value)
    /\ UNCHANGED <<call, calls, vars, bvars>>

ConvNext ==
    \/ CallSeconds
    \/ CallGigabytes
    \/ CallParseLogFile

ConvSpec == ConvInit /\ [][ConvNext]_allvars

\* ---- parse_log_file called again and again by one window

\* the most calls, and the longest log of a call
MaxCalls == 3
MaxCallLines == 2

\* the lines of the logs of the calls
CallLines == {L_McrtHeader, L_RowA, L_Wrote1, L_MemoryHeader, L_RowBad}

CallLogs == UNION {[1..k -> CallLines] : k \in 0..MaxCallLines}

\* FreshLocals keeping the stats dictionary of the call before
FreshLocalsKeepStats(st) ==
    [InitLocals EXCEPT
       !.stats = Put(Put(st.stats, K_fallback, Bool(FALSE)), K_crash,
                     Bool(FALSE))]

\* the locals after the assignments ahead of the loop, st being what the
\* call before left in them
FreshLocals(st) == InitLocals

\* the call under way has ended
Ended == calls.count > 0 /\ pc \in {"returned", "raised"}

\* what the call that ended raised or returned, and on which log
EndedCall == [log |-> call.args[1], exc |-> exc, result |-> result]

\* parse_log_file is entered with the log as its file
Enter(log) ==
    /\ calls.count < MaxCalls
    /\ calls.count = 0 \/ Ended
    /\ call' = [fn |-> "parse_log_file", args |-> <<log>>]
    /\ calls' = IF calls.count = 1
                THEN [count |-> 2, first |-> EndedCall]
                ELSE [calls EXCEPT !.count = @ + 1]
    /\ Assign(Ok(FreshLocals(Locals)))
    /\ result' = Pending
    /\ n' = 0
    /\ last' = <<>>
    /\ seen' = {}
    /\ UNCHANGED <<bvars, ret>>

\* the loop reads the next line of the file
ReadNext ==
    /\ calls.count > 0
    /\ n < Len(call.args[1])
    /\ ReadLine(call.args[1][n + 1])

\* the loop has read the last line
ReturnAtEnd ==
    /\ calls.count > 0
    /\ n = Len(call.args[1])
    /\ Return

CallNext ==
    \/ \E log \in CallLogs : Enter(log)
    \/ ReadNext
    \/ ReturnAtEnd

CallSpec == Init /\ [][CallNext]_allvars

\* ---- get_stats called again and again, the logs changing between calls

\* the log files, and the weeks naming the cache files
NFiles == 2

Files == 1..NFiles

NoStatsCall == [fn |-> "none", week |-> 0, log_file |-> 0, use_cache |-> FALSE]

NoReturn == [exc |-> "pending", value |-> Pending, parsed |-> FALSE]

\* the cache directory is empty, the logs are any
CacheInit ==
    /\ ParseInit
    /\ disk \in [Files -> FileKinds]
    /\ cache = <<>>
    /\ selected = {}
    /\ self_stats = <<>>
    /\ todo = {}
    /\ bpc = "idle"
    /\ bexc = "none"
    /\ options = <<>>
    /\ chart = NoChart
    /\ call = NoStatsCall
    /\ ret = NoReturn
    /\ calls = [count |-> 0]

\* what the call left: its outcome and the cache files
AssignStats(out) ==
    /\ ret' = [exc |-> out.exc, value |-> out.value, parsed |-> out.parsed]
    /\ cache' = out.cache

\* self.get_stats(test_name, week, log_file, log_type) with self.use_cache
\* as given
GetStats(week, log_file, use_cache) ==
    /\ call' = [fn |-> "get_stats", week |-> week, log_file |-> log_file,
                use_cache |-> use_cache]
    /\ AssignStats(get_stats(cache, disk, week, log_file, use_cache))
    /\ UNCHANGED <<disk, selected, self_stats, todo, bpc, bexc, options,
                   chart, calls>>
    /\ UNCHANGED vars

\* the profile run writes, replaces or removes the log of a day
ChangeLog(day, kind) ==
    /\ disk[day] # kind
    /\ disk' = [disk EXCEPT ![day] = kind]
    /\ UNCHANGED <<cache, selected, self_stats, todo, bpc, bexc, options,
                   chart>>
    /\ UNCHANGED <<vars, cvars>>

CacheNext ==
    \/ \E week \in Files, log_file \in Files, use_cache \in BOOLEAN :
          GetStats(week, log_file, use_cache)
    \/ \E day \in Files, kind \in FileKinds : ChangeLog(day, kind)

CacheSpec == CacheInit /\ [][CacheNext]_allvars
\* ---- properties of parse_log_file

Returned == pc = "returned"
ReturnedRecord == pc = "returned" /\ result.kind = "dict"
Saw(k) == \E t \in seen : t.k = k

\* C1: a log in which no line contains the MCRT breakdown header marker
\* makes parse_log_file return None, whatever else its lines put in stats.
C1_NoMarkerNoData ==
    (Returned /\ ~Saw("marker")) => result.kind = "None"

\* a log without the marker from which pixel samples, a host name, the
\* fallback and the crash were all read, returned as None
C1_Witness ==
    /\ Returned /\ ~Saw("marker") /\ n >= 3
    /\ K_pixel_samples \in DOMAIN stats
    /\ K_host_name \in DOMAIN stats
    /\ stats[K_crash] = Bool(TRUE)
    /\ result.kind = "None"

\* C2 as stated: a log with a line containing "MCRT Time Breakdown" is
\* returned as a record.
C2_Original ==
    (Returned /\ Saw("mcrt_text")) => result.kind = "dict"

\* C2 amended: a log with a line containing "- MCRT Time Breakdown -" is
\* returned as a record whenever parse_log_file returns, whatever block is
\* active when the line is read and whatever follows it.
C2_DashedMarkerGivesRecord ==
    (Returned /\ Saw("marker")) => result.kind = "dict"

\* the header read while the render-prep and the memory block were both
\* active, and a record returned
C2_Witness ==
    /\ ReturnedRecord /\ Saw("marker")
    /\ in_render_prep /\ in_render_prep_memory

\* C3: a line containing "-- Callstack:" sets crash to True in the returned
\* record wherever it is in the file.
C3_CallstackAnywhere ==
    (ReturnedRecord /\ Saw("callstack")) =>
        result.stats[K_crash] = Bool(TRUE)

\* C4: at most one of in_breakdown, in_render_prep and
\* in_render_prep_memory is set at any point of the scan.
C4_AtMostOneBlock ==
    /\ ~(in_breakdown /\ in_render_prep)
    /\ ~(in_breakdown /\ in_render_prep_memory)
    /\ ~(in_render_prep /\ in_render_prep_memory)

LineStep == pc = "scan" /\ pc' = "scan" /\ n' = n + 1

\* the step writes the key 'MCRT memory': a Totals line or a row of that
\* name in the breakdown block, or a line naming it in the memory block
WritesMcrtMemory ==
    \/ in_breakdown /\ Contains(S_Totals, last')
    \/ in_breakdown /\ \E r \in FactsOf[last'].row : r.key = K_MCRTmemory
    \/ /\ ~in_breakdown /\ ~Contains(S_McrtHeader, last')
       /\ ~in_render_prep /\ ~Contains(S_RenderPrepHeader, last')
       /\ in_render_prep_memory
       /\ ~Contains(S_TotalMemory, last')
       /\ Contains(K_MCRTmemory, last')

\* C7 as stated: when the Totals line was processed with no
\* total_render_prep_memory in stats, the returned record has, as
\* 'MCRT memory', the gigabytes of its tokens 1 and 2, whatever follows.
C7_Original ==
    ReturnedRecord =>
        \A t \in seen :
            t.k = "totals_plain" =>
                /\ K_MCRTmemory \in DOMAIN result.stats
                /\ result.stats[K_MCRTmemory] = t.v

\* C7 amended: processing the Totals line with no total_render_prep_memory
\* in stats sets 'MCRT memory' to the gigabytes of its tokens 1 and 2, with
\* no subtraction; the key keeps its value over every line that does not
\* write 'MCRT memory' again, and the record returned is stats as the last
\* line left it.
C7_TotalsSetsMcrtMemory ==
    [][/\ LineStep =>
            /\ \A gb \in FactsOf[last'].totals_gb :
                  (/\ in_breakdown
                   /\ K_total_render_prep_memory \notin DOMAIN stats)
                  => /\ K_MCRTmemory \in DOMAIN stats'
                     /\ stats'[K_MCRTmemory] = gb
            /\ (K_MCRTmemory \in DOMAIN stats /\ ~WritesMcrtMemory)
               => /\ K_MCRTmemory \in DOMAIN stats'
                  /\ stats'[K_MCRTmemory] = stats[K_MCRTmemory]
       /\ (pc = "scan" /\ pc' = "returned" /\ result'.kind = "dict")
          => result'.stats = stats]_vars

\* a record returned with the 2 GB of "Totals 2048 MB ..." as 'MCRT memory',
\* with lines read after the Totals line
C7_Witness ==
    /\ ReturnedRecord
    /\ Tag("totals_plain", Float(2, 1)) \in seen
    /\ last # L_Totals
    /\ K_total_render_prep_memory \notin DOMAIN result.stats
    /\ result.stats[K_MCRTmemory] = Float(2, 1)

\* C8: when total_render_prep_memory is in stats as the Totals line of the
\* breakdown block is processed, 'MCRT memory' becomes the gigabytes of the
\* line's tokens 1 and 2 minus total_render_prep_memory, and
\* total_render_prep_memory keeps its value.
C8_TotalsSubtractsPrepMemory ==
    [][LineStep =>
          \A gb \in FactsOf[last'].totals_gb :
              (in_breakdown /\ K_total_render_prep_memory \in DOMAIN stats)
              => /\ K_MCRTmemory \in DOMAIN stats'
                 /\ stats'[K_MCRTmemory] =
                        FSub(gb, stats[K_total_render_prep_memory])
                 /\ K_total_render_prep_memory \in DOMAIN stats'
                 /\ stats'[K_total_render_prep_memory] =
                        stats[K_total_render_prep_memory]]_vars

\* "Totals 2048 MB ..." processed after "Total memory 1024 MB": 2 - 1 = 1
C8_Witness ==
    /\ pc = "scan" /\ last = L_Totals /\ ~in_breakdown
    /\ K_total_mcrt_time \in DOMAIN stats
    /\ K_total_render_prep_memory \in DOMAIN stats
    /\ stats[K_total_render_prep_memory] = Float(1, 1)
    /\ stats[K_MCRTmemory] = Float(1, 1)

\* C9: a row of the breakdown block whose name is already in stats replaces
\* the value under that name, so that the last row of a name wins; no error
\* is raised and no other key changes.
C9_LastRowWins ==
    [][(pc = "scan" /\ n' = n + 1) =>
          \A r \in FactsOf[last'].row :
              (in_breakdown /\ r.key \in DOMAIN stats)
              => /\ pc' = "scan"
                 /\ stats' = [stats EXCEPT ![r.key] = r.v]]_vars

\* "| Integration 4 s" read after "| Integration 2.5 s": Integration is 4
C9_Witness ==
    /\ pc = "scan" /\ in_breakdown /\ last = L_RowB
    /\ Tag("row", Float(5, 2)) \in seen
    /\ stats[RowTime(L_RowB).key] = Float(4, 1)

\* C10: output_image is set by the first line containing "Wrote" whose
\* second token ends with "Image.exr", to that token.
C10_FirstWroteSetsImage ==
    ReturnedRecord =>
        \A t \in seen :
            t.k = "image" =>
                /\ K_output_image \in DOMAIN result.stats
                /\ result.stats[K_output_image] = t.v

\* ---- the window: process_logs and the chart

\* process_logs has gone through every selected week
LoopDone == bpc = "process_logs" /\ todo = {}

\* C11: parsing the log of a selected week never makes process_logs raise:
\* the loop goes on to the weeks left, and at its end every selected week
\* has an entry for the execution mode
C11_ParseErrorIsLocal ==
    /\ bpc # "process_logs raised"
    /\ LoopDone => \A w \in selected : CheckedType \in DOMAIN self_stats[w]

\* self.stats holds the no-data result for some selected week
HasNoData ==
    \E w \in DOMAIN self_stats :
        /\ CheckedType \in DOMAIN self_stats[w]
        /\ self_stats[w][CheckedType].kind = "None"

\* C12: with the no-data result in self.stats, update_chart ends without an
\* exception whatever the checkboxes say
C12_NoDataIsSkipped == HasNoData => bpc # "update_chart raised"

\* ---- the two conversions

\* the call of get_seconds_from_time has ended
SecondsCalled == call # <<>> /\ call.fn = "get_seconds_from_time" /\ ret # NotCalled

\* the call of get_gigabytes_from_size has ended
GigabytesCalled ==
    call # <<>> /\ call.fn = "get_gigabytes_from_size" /\ ret # NotCalled

\* H * 3600 + MM * 60 + SS for the numbers the three fields denote
SecondsOfFields(H, MM, SS) ==
    Float(3600 * H.num * MM.den * SS.den + 60 * MM.num * H.den * SS.den
            + SS.num * H.den * MM.den,
          H.den * MM.den * SS.den)

\* C13: on a time string of three or more colon-separated fields whose last
\* three are numbers, get_seconds_from_time returns H * 3600 + MM * 60 + SS
\* of those three, whatever the fields before them; "01:02:03" gives 3723
C13_LastThreeFields ==
    SecondsCalled =>
        LET k == Len(call.fields)
        IN  /\ (/\ k >= 3
                /\ \A i \in {k - 2, k - 1, k} : call.fields[i].den # 0)
               => ret = Outcome("none",
                                SecondsOfFields(call.fields[k - 2],
                                                call.fields[k - 1],
                                                call.fields[k]))
            /\ call.args[1] = <<"0", "1", ":", "0", "2", ":", "0", "3">>
               => ret = Outcome("none", Float(3723, 1))

\* a field that is not a number ahead of 01:02:03, and 3723 returned
C13_Witness ==
    /\ SecondsCalled
    /\ call.args[1] = <<"x", ":", "0", "1", ":", "0", "2", ":", "0", "3">>
    /\ ret = Outcome("none", Float(3723, 1))

\* the number of units in a gigabyte
PerGigabyte(u) ==
    CASE u = S_GB -> 1 [] u = S_MB -> 1024 [] u = S_KB -> 1024 * 1024

\* C14: on a number v and a unit GB, MB or KB, get_gigabytes_from_size
\* returns v, v / 1024 or v / 1024 / 1024; 2048 MB gives 2, 1 GB gives 1 and
\* 1048576 KB gives 1
C14_GigabytesOfUnit ==
    GigabytesCalled =>
        LET v == call.fields[1]
            u == call.args[2]
        IN  /\ (v.den # 0 /\ u \in {S_GB, S_MB, S_KB})
               => ret = Outcome("none", Float(v.num, v.den * PerGigabyte(u)))
            /\ (v.num = 2048 /\ u = S_MB)
               => ret = Outcome("none", Float(2, 1))
            /\ (v.num = 1 /\ u = S_GB) => ret = Outcome("none", Float(1, 1))
            /\ (v.num = 1048576 /\ u = S_KB)
               => ret = Outcome("none", Float(1, 1))

\* 1048576 KB converted to one gigabyte
C14_Witness ==
    /\ GigabytesCalled
    /\ call.args = <<<<"1", "0", "4", "8", "5", "7", "6">>, S_KB>>
    /\ ret = Outcome("none", Float(1, 1))

\* ---- the scan again

\* C15: no value of a returned record is None (a size with a unit outside
\* GB, MB, KB is refused, not stored)
C15_NoNullValue ==
    ReturnedRecord => \A k \in DOMAIN result.stats : result.stats[k].t # "None"

\* C16: a returned record holds fallback_mode only if its fallback is True
C16_ModeOnlyWithFallback ==
    ReturnedRecord =>
        (K_fallback_mode \in DOMAIN result.stats
            => result.stats[K_fallback] = Bool(TRUE))

\* C17: a call of parse_log_file on the log of the first call, whatever
\* calls were made in between, ends as the first call ended
C17_SameLogSameResult ==
    (Ended /\ calls.count >= 2 /\ call.args[1] = calls.first.log)
        => EndedCall = calls.first

\* the third call, on the header alone as the first was, returning the
\* record of the first
C17_Witness ==
    /\ Ended
    /\ calls.count = 3
    /\ call.args[1] = <<L_McrtHeader>>
    /\ calls.first.log = <<L_McrtHeader>>
    /\ result = [kind |-> "dict", stats |-> InitStats]

\* ---- the end-to-end scenario

\* the call of parse_log_file on a whole log has ended
ParseCalled == call # <<>> /\ call.fn = "parse_log_file" /\ ret # NotCalled

\* the key and the converted value of each line of the scenario, written
\* out by hand; a size is in gigabytes, the pixel samples in millions
OwnPairs(line) ==
    CASE line = L_LoadingScene -> {<<K_Loadingscene, Float(5, 1)>>}
      [] line = L_TotalRenderPrep ->
            {<<K_total_render_prep_time, Float(60, 1)>>}
      [] line = L_GeometryMemory -> {<<K_Geometrymemory, Float(1, 2)>>}
      [] line = L_McrtMemory -> {<<K_MCRTmemory, Float(3, 1)>>}
      [] line = L_TotalMemory -> {<<K_total_render_prep_memory, Float(1, 1)>>}
      [] line = L_RowA -> {<<K_Integration, Float(5, 2)>>}
      [] line = L_RowB -> {<<K_Integration, Float(4, 1)>>}
      [] line = L_RowVolume -> {<<K_Volumeintegration, Float(3, 2)>>}
      \* 7.5 s, and 2048 MB less the 1024 MB of the Total memory line
      [] line = L_Totals -> {<<K_total_mcrt_time, Float(15, 2)>>,
                             <<K_MCRTmemory, Float(1, 1)>>}
      [] line = L_PixelSamples -> {<<K_pixel_samples, Float(4, 1)>>}
      [] line = L_HostName -> {<<K_host_name, Str(<<"t", "a", "k", "o">>)>>}
      [] line = L_Wrote1 ->
            {<<K_output_image, Str(<<"a", "/", "b", "_", "I", "m", "a", "g",
                                     "e", ".", "e", "x", "r">>)>>}
      [] line = L_Wrote2 ->
            {<<K_output_image, Str(<<"c", "/", "I", "m", "a", "g", "e", ".",
                                     "e", "x", "r">>)>>}
      [] OTHER -> {}

\* the record returned holds the key of line i of the log with the value of
\* that line
HoldsLine(log, i) ==
    \A p \in OwnPairs(log[i]) :
        /\ p[1] \in DOMAIN ret.v.stats
        /\ ret.v.stats[p[1]] = p[2]

\* a record is returned, with fallback and crash False
RecordNoFallbackNoCrash ==
    /\ ret.exc = "none"
    /\ ret.v.kind = "dict"
    /\ ret.v.stats[K_fallback] = Bool(FALSE)
    /\ ret.v.stats[K_crash] = Bool(FALSE)

\* C18 as stated: on a log of the scenario a record is returned that holds
\* the key of every line with the converted value of that line, fallback
\* and crash False
C18_Original ==
    ParseCalled =>
        /\ RecordNoFallbackNoCrash
        /\ \A i \in DOMAIN call.args[1] : HoldsLine(call.args[1], i)

\* C18 amended: the same, for the logs of the scenario whose memory stat is
\* not 'MCRT memory' (the Totals line writes that key after it)
C18_EndToEnd ==
    (ParseCalled /\ call.args[1][5] # L_McrtMemory) =>
        /\ RecordNoFallbackNoCrash
        /\ \A i \in DOMAIN call.args[1] : HoldsLine(call.args[1], i)

\* the scenario with 'Geometry memory' in the memory block, returned with
\* thirteen keys
C18_Witness ==
    /\ ParseCalled
    /\ call.args[1] = EndToEndLog(L_GeometryMemory, L_RowA, L_RowVolume,
                                  L_Wrote1)
    /\ RecordNoFallbackNoCrash
    /\ Cardinality(DOMAIN ret.v.stats) = 13

\* ---- the scan, line by line

\* some block is active
InBlock == in_breakdown \/ in_render_prep \/ in_render_prep_memory

\* the block flags are left as they are
BlocksUnchanged ==
    UNCHANGED <<in_breakdown, in_render_prep, in_render_prep_memory>>

\* C19: a step that reads a fallback sentence with a pair that counts while
\* a block is active sets fallback and fallback_mode, leaves the block flags
\* as they were and leaves the scan running
C19_FallbackInsideBlock ==
    [][(pc = "scan" /\ n' = n + 1 /\ InBlock
            /\ FactsOf[last'].downgrade # {})
        => /\ pc' = "scan"
           /\ stats'[K_fallback] = Bool(TRUE)
           /\ K_fallback_mode \in DOMAIN stats'
           /\ Str(stats'[K_fallback_mode].s) \in
                 {Str(A) : A \in FactsOf[last'].downgrade}
           /\ BlocksUnchanged]_vars

\* the line is a row of the table, or the terminator of the memory block,
\* whose number is not a number
BadNumber(l) == l \in {L_RowBad, L_TotalMemoryBad}

\* C20: a step that reads a row in the breakdown block, or the terminator in
\* the memory block, with a number that cannot be parsed leaves the record
\* and the block flags as they were and leaves the scan running
C20_BadNumberSkipsLine ==
    [][(pc = "scan" /\ n' = n + 1
            /\ \/ in_breakdown /\ last' = L_RowBad
               \/ ~in_breakdown /\ ~in_render_prep /\ in_render_prep_memory
                     /\ last' = L_TotalMemoryBad)
        => /\ pc' = "scan"
           /\ stats' = stats
           /\ BlocksUnchanged]_vars

\* ---- properties of the blocks of parse_log_file

\* the number a Totals line gives as its total time: its token before the
\* last, the commas removed
SecondToLast(l) ==
    FloatOf(Remove(SplitWS(l)[Len(SplitWS(l)) - 1], ","))

\* the step leaves the key of the row r as it was
RowNotStored(r) ==
    r.key \in DOMAIN stats' =>
        /\ r.key \in DOMAIN stats
        /\ stats'[r.key] = stats[r.key]

\* C21: a step that reads a line containing "Totals" while the breakdown
\* block is active ends the block and sets total_mcrt_time to the line's
\* token before the last with its commas removed; while the block is not
\* active no step stores a line as a row of the table, and only a step that
\* reads a breakdown header makes the block active again.
C21_TotalsEndsBlock ==
    [][LineStep =>
          /\ (in_breakdown /\ Contains(S_Totals, last')) =>
                /\ ~in_breakdown'
                /\ K_total_mcrt_time \in DOMAIN stats'
                /\ stats'[K_total_mcrt_time] = SecondToLast(last')
          /\ ~in_breakdown =>
                /\ in_breakdown' => Contains(S_McrtHeader, last')
                /\ \A r \in FactsOf[last'].row : RowNotStored(r)]_vars

\* a record returned for a log whose block was ended by a Totals line with
\* the time 1,007.5 and whose last line, a row of the table, was read after
\* it and is not in the record
C21_Witness ==
    /\ ReturnedRecord
    /\ last = L_RowA
    /\ ~in_breakdown
    /\ K_total_mcrt_time \in DOMAIN result.stats
    /\ result.stats[K_total_mcrt_time] = SecondToLast(L_TotalsComma)
    /\ result.stats[K_total_mcrt_time] = Float(2015, 2)
    /\ K_Integration \notin DOMAIN result.stats

\* the text of a line between its first "|" and the next run of two or more
\* spaces, trimmed; the empty string for a line without a "|"
NameBetween(l) ==
    LET bars == {i \in 1..Len(l) : l[i] = "|"}
        bar == CHOOSE i \in bars : \A o \in bars : i <= o
        runs == {j \in (bar + 1)..(Len(l) - 1) : l[j] = " " /\ l[j + 1] = " "}
        run == CHOOSE j \in runs : \A o \in runs : j <= o
    IN  IF bars = {} THEN <<>>
        ELSE IF runs = {} THEN Strip(SubSeq(l, bar + 1, Len(l)))
        ELSE Strip(SubSeq(l, bar + 1, run - 1))

NameBetweenOf == Table([l \in EveryLine |-> NameBetween(l)])

\* C22: a step that reads a row of the table with a "|" while the breakdown
\* block is active stores the row's number under the text between the first
\* "|" of the line and the next run of two or more spaces, trimmed, also when
\* the row has more than one "|" or a "|" with no space after it.
C22_NameBetweenBarAndSpaces ==
    [][(LineStep /\ in_breakdown /\ Contains(S_Bar, last'))
        => \A r \in FactsOf[last'].row :
              /\ NameBetweenOf[last'] \in DOMAIN stats'
              /\ stats'[NameBetweenOf[last']] = r.v]_vars

\* the line the step reads reaches the branch of the render-prep block
PrepHandles ==
    /\ ~in_breakdown /\ ~Contains(S_McrtHeader, last')
    /\ in_render_prep

\* the seconds of the last token of a line
LastSeconds(l) == get_seconds_from_time(SplitWS(l)[Len(SplitWS(l))])

\* C23: the render-prep block, once active, stays active over every line
\* read, the lines naming one of the seven render-prep stats included,
\* except the line containing "Total render prep" that the block itself
\* processes: that line sets total_render_prep_time to the seconds of its
\* last token and makes the block inactive.
C23_PrepBlockUntilTerminator ==
    [][LineStep =>
          /\ (PrepHandles /\ Contains(S_TotalRenderPrep, last')) =>
                /\ ~in_render_prep'
                /\ K_total_render_prep_time \in DOMAIN stats'
                /\ stats'[K_total_render_prep_time] = LastSeconds(last')
          /\ (in_render_prep
                /\ ~(PrepHandles /\ Contains(S_TotalRenderPrep, last')))
             => in_render_prep']_vars

\* a log of three lines: the block stayed active over "Loading scene", which
\* it stored, and was ended by the terminator read after it
C23_Witness ==
    /\ pc = "scan" /\ n = 3
    /\ last = L_TotalRenderPrep
    /\ ~in_render_prep
    /\ K_Loadingscene \in DOMAIN stats
    /\ stats[K_Loadingscene] = Float(5, 1)
    /\ K_total_render_prep_time \in DOMAIN stats
    /\ stats[K_total_render_prep_time] = Float(60, 1)

\* the number right of "=" on a line, its commas, spaces and newline removed,
\* divided by a million
MillionsRightOfEquals(l) ==
    FDivInt(FloatOf(Remove(Remove(Remove(SplitOn(l, "=")[2], ","), " "),
                           "\n")),
            1000000)

\* C24: whichever blocks are active, a step that reads a line containing
\* "Pixel samples" and not "Pixel samples sqrt" leaves the scan running with
\* pixel_samples set to the number right of "=" divided by 1,000,000; a step
\* that reads a line containing "Pixel samples sqrt" leaves pixel_samples as
\* it was.
C24_PixelSamplesAnywhere ==
    [][(pc = "scan" /\ n' = n + 1) =>
          /\ (/\ Contains(S_PixelSamples, last')
              /\ ~Contains(S_PixelSamplesSqrt, last'))
             => /\ pc' = "scan"
                /\ K_pixel_samples \in DOMAIN stats'
                /\ stats'[K_pixel_samples] = MillionsRightOfEquals(last')
          /\ Contains(S_PixelSamplesSqrt, last')
             => /\ K_pixel_samples \in DOMAIN stats'
                   <=> K_pixel_samples \in DOMAIN stats
                /\ K_pixel_samples \in DOMAIN stats
                   => stats'[K_pixel_samples] = stats[K_pixel_samples]]_vars

\* ---- properties of get_stats and the cache

\* the step is a call of get_stats with caching enabled
CachedCall == disk' = disk /\ call'.fn = "get_stats" /\ call'.use_cache

\* C25: with caching enabled, a call of get_stats for a week whose cache
\* file exists returns the record of the file, reads no log and leaves the
\* file as it is; so it returns what the call before it returned for the
\* same week with caching enabled, whatever became of the log in between.
C25_CachedRecordIsReturned ==
    [][CachedCall =>
          /\ call'.week \in DOMAIN cache =>
                /\ ret'.exc = "none"
                /\ ~ret'.parsed
                /\ ret'.value = json_load(cache[call'.week])
                /\ cache' = cache
          /\ (/\ call.fn = "get_stats" /\ call.use_cache
              /\ call.week = call'.week
              /\ call.week \in DOMAIN cache
              /\ ret.exc = "none")
             => ret'.value = ret.value]_allvars

\* the no-data result returned from the cache file of the week, no log
\* read, while the log the call names now holds a breakdown
C25_Witness ==
    /\ call.fn = "get_stats" /\ call.use_cache
    /\ call.week \in DOMAIN cache
    /\ cache[call.week].j = "null"
    /\ ret.exc = "none" /\ ~ret.parsed
    /\ ret.value.kind = "None"
    /\ disk[call.log_file] = "good"

\* the documents json.dump writes for the logs that parse
ParsedDocuments ==
    {json_dump(ParseOf[kind].value) :
        kind \in {k \in LogKinds : ParseOf[k].exc = "none"}}

\* C29: a call of get_stats in which parse_log_file raises leaves every
\* cache file as it was, and no cache file ever holds anything but the
\* document of a parse that returned.
C29_FailedParseLeavesCache ==
    [][(disk' = disk /\ call'.fn = "get_stats") =>
          /\ ret'.exc # "none" => cache' = cache
          /\ \A w \in DOMAIN cache' : cache'[w] \in ParsedDocuments]_allvars

\* parse_log_file raised in a call made with caching disabled for a week
\* whose cache file, written by an earlier call, is still there
C29_Witness ==
    /\ call.fn = "get_stats" /\ ~call.use_cache
    /\ ret.exc = "ValueError" /\ ret.parsed
    /\ call.week \in DOMAIN cache
    /\ json_load(cache[call.week]).kind = "dict"

\* ---- properties of the chart

Range(seq) == {seq[i] : i \in DOMAIN seq}

\* the step is a call of MyWindow.update_chart
ChartStep ==
    /\ bpc \in {"process_logs", "done"}
    /\ bpc' \in {"done", "update_chart raised"}

\* C26: a call of MyWindow.update_chart, whatever the checkboxes and whether
\* it raises or not, leaves self.stats as it was: the division by the pixel
\* samples and the key visible_time go to the copy the chart is built from.
C26_ChartLeavesStats ==
    [][ChartStep => self_stats' = self_stats]_allvars

\* a chart built with the division checked: its lists hold a visible_time
\* and a total_mcrt_time divided by the four million samples, while the
\* record of self.stats has no visible_time and its total_mcrt_time of 7.5
C26_Witness ==
    /\ bpc = "done"
    /\ options.divide_by_ps
    /\ \E w \in DOMAIN self_stats :
          /\ CheckedType \in DOMAIN self_stats[w]
          /\ self_stats[w][CheckedType].kind = "dict"
          /\ K_visible_time \notin DOMAIN self_stats[w][CheckedType].stats
          /\ self_stats[w][CheckedType].stats[K_total_mcrt_time]
                = Float(15, 2)
          /\ [week |-> w, v |-> Float(15, 8000000)]
                \in Range(chart.extra[K_total_mcrt_time])
          /\ \E el \in Range(chart.extra[K_visible_time]) : el.week = w

\* C30: in a chart that update_chart has built, each of the five lists set
\* as properties of the bar sets has one element for each bar of a bar set,
\* and the element at an index was appended for the week of the bar at that
\* index.
C30_OneElementPerBar ==
    bpc = "done" =>
        \A x \in ExtraStats :
            /\ Len(chart.extra[x]) = Len(chart.bars)
            /\ \A i \in 1..Len(chart.bars) :
                  chart.extra[x][i].week = chart.bars[i].week

\* ---- properties of process_logs

\* the test directory has a log of the day, for the checked execution mode
HasLog(day) == day \in DOMAIN disk /\ disk[day] # "none"

\* the day whose log stands for a week: the week itself, else the next day,
\* else the previous day; 0 when none of the three has a log
DayFor(week) ==
    IF HasLog(week) THEN week
    ELSE IF HasLog(week + 1) THEN week + 1
    ELSE IF HasLog(week - 1) THEN week - 1
    ELSE 0

\* the step is an iteration of process_logs that does not raise
WeekStep == bpc = "process_logs" /\ todo # {} /\ bpc' = "process_logs"

\* C27: an iteration of process_logs for a selected week sets the entry of
\* the week and the checked mode to "missing" exactly when neither the week
\* nor the next day nor the previous day has a log, and otherwise to what
\* get_stats returns for the selected week and the log of the first of the
\* three days that has one.
C27_ExactNextPrevious ==
    [][WeekStep =>
          /\ Min(todo) \in DOMAIN self_stats'
          /\ CheckedType \in DOMAIN self_stats'[Min(todo)]
          /\ self_stats'[Min(todo)][CheckedType].kind = "missing"
                <=> DayFor(Min(todo)) = 0
          /\ DayFor(Min(todo)) # 0 =>
                /\ self_stats'[Min(todo)][CheckedType] =
                      get_stats(cache, disk, Min(todo), DayFor(Min(todo)),
                                UseCache).value
                /\ cache' = get_stats(cache, disk, Min(todo),
                                      DayFor(Min(todo)), UseCache).cache]_allvars

\* the pass over the weeks 1, 2 and 3 of a directory whose logs are of the
\* days 1 and 3: week 2 has the record of the log of day 3, the next day,
\* in self.stats and in the cache file of week 2
C27_Witness ==
    /\ bpc = "process_logs" /\ todo = {}
    /\ selected = {1, 2, 3}
    /\ disk[1] = "nodata" /\ disk[2] = "none" /\ disk[3] = "good"
    /\ self_stats[1][CheckedType].kind = "None"
    /\ self_stats[2][CheckedType] = ParseOf["good"].value
    /\ json_load(cache[2]) = ParseOf["good"].value

\* C28: when a pass of process_logs over the selected weeks has ended, no
\* two selected weeks have the log of the same day standing for them.
C28_NoLogForTwoWeeks ==
    (bpc = "process_logs" /\ todo = {}) =>
        \A w1 \in selected, w2 \in selected :
            (w1 # w2 /\ DayFor(w1) # 0) => DayFor(w1) # DayFor(w2)
=============================================================================
